---- MODULE Spec2Model ----
(***************************************************************************)
(* Semantic analysis and code generation core of the VSOP compiler.        *)
(*                                                                         *)
(* One compilation run: SemanticAnalyzer::analyze (class table, hierarchy  *)
(* validation, member resolution, Main check), TypeChecker::check (the     *)
(* expression visitor) and the layout pass of the code generator.          *)
(***************************************************************************)
EXTENDS Integers, Sequences, FiniteSets, TLC

VARIABLES
    program,            \* Program::classes, the AST handed over by the parser
    pc,                 \* position of the driver in the pipeline
    errors,             \* SemanticAnalyzer::errors
    class_table,        \* SemanticAnalyzer::class_table (name -> index of the AST node)
    class_definitions,  \* SemanticAnalyzer::class_definitions
    pending,            \* entries the running map iteration has not visited yet
    started,            \* passes that have started in this run
    tc_errors,          \* TypeChecker::errors
    scope_visits,       \* TypeChecker::scopes before and after each class, method, let
    typed_error,        \* TypeChecker: some expression was typed Error (any, silent)
    class_layouts,      \* CodeGenerator::class_layouts (Semantic_Analysis)
    next_class,         \* position of the running loop in program->classes
    methods,            \* CodeGenerator::methods: the names bound to a function
    class_vtable_methods,           \* generateClassVTables: class -> method list
    class_method_implementations,   \* generateClassVTables: class -> method -> function
    vtable_globals,     \* CodeGenerator::vtable_globals: class -> slots of the constant
    cg_errors,          \* CodeGenerator::errors
    functions,          \* the functions of the module that have a body, in order
    ill_formed,         \* the module holds IR that llvm::verifyModule rejects
    lets,               \* history: the variable map around each let lowered
    calls,              \* history: the callee each call was resolved to
    accesses,           \* history: the slot each field access addresses
    constructors,       \* class -> the object its constructor function returns
    expr_types,         \* history: TypeChecker::expr_types of the calls and lets, with context
    pow                 \* a run of the code emitted for base ^ exp: block, allocas, registers

cg_vars == <<methods, class_vtable_methods, class_method_implementations,
             vtable_globals, cg_errors>>

em_vars == <<functions, ill_formed, lets, calls, accesses>>

compiler_vars ==
    <<program, pc, errors, class_table, class_definitions, pending,
      started, tc_errors, scope_visits, typed_error, class_layouts, next_class, cg_vars, em_vars,
      constructors, expr_types>>

vars == <<compiler_vars, pow>>

(***************************************************************************)
(* Bounds of the explored inputs.                                          *)
(***************************************************************************)
MaxClasses == 3

\* the width in bits of the integers the emitted exponentiation runs on
IntWidth == 4

(***************************************************************************)
(* Types (SemanticAnalyzer.hpp).                                           *)
(***************************************************************************)
PrimitiveNames == {"int32", "bool", "string", "unit"}

IsPrimitiveName(n) == n \in PrimitiveNames

MkType(n, k) == [name |-> n, kind |-> k]

TypeInt32 == MkType("int32", "PRIMITIVE")
TypeBoolean == MkType("bool", "PRIMITIVE")
TypeString == MkType("string", "PRIMITIVE")
TypeUnit == MkType("unit", "PRIMITIVE")
TypeObject == MkType("Object", "CLASS")
TypeError == MkType("__error__", "PRIMITIVE")

isError(t) == t.name = "__error__"

FormalParam(n, t) == [name |-> n, type |-> t]

MethodSignature(n, ps, r) == [name |-> n, parameters |-> ps, returnType |-> r]

ClassDef(n, p) == [name |-> n, parent |-> p, fields |-> <<>>, methods |-> <<>>]

\* std::unordered_map / std::map: operator[] assignment and find
Put(f, k, v) == [x \in (DOMAIN f) \cup {k} |-> IF x = k THEN v ELSE f[x]]

Has(f, k) == k \in DOMAIN f

EmptyMap == <<>>

\* a diagnostic string, reduced to the parts the message is built from
Diag4(k, c, i, x) == [kind |-> k, cls |-> c, item |-> i, extra |-> x]

Diag(k, c, i) == Diag4(k, c, i, "")

(***************************************************************************)
(* Type::conformsTo                                                        *)
(***************************************************************************)
RECURSIVE conformsWalk(_, _, _)
conformsWalk(current, other, defs) ==
    IF current = "Object" \/ current = "" THEN FALSE
    ELSE IF ~Has(defs, current) THEN FALSE
    ELSE LET up == defs[current].parent IN
         IF up = other.name THEN TRUE
         ELSE conformsWalk(up, other, defs)

\* variant without the test for equal names
conformsTo_noEqualNames(t, other, defs) ==
    IF isError(t) \/ isError(other) THEN TRUE
    ELSE IF t.kind = "PRIMITIVE" \/ other.kind = "PRIMITIVE"
         THEN other.name = "Object"
    ELSE IF other.name = "Object" THEN TRUE
    ELSE conformsWalk(t.name, other, defs)

conformsTo(t, other, defs) ==
    IF t.name = other.name THEN TRUE
    ELSE IF isError(t) \/ isError(other) THEN TRUE
    ELSE IF t.kind = "PRIMITIVE" \/ other.kind = "PRIMITIVE"
         THEN other.name = "Object"
    ELSE IF other.name = "Object" THEN TRUE
    ELSE conformsWalk(t.name, other, defs)

(***************************************************************************)
(* MethodSignature::isCompatible                                           *)
(***************************************************************************)
\* variant that compares the return type and the number of parameters only
isCompatible_countOnly(s, other) ==
    /\ s.returnType.name = other.returnType.name
    /\ Len(s.parameters) = Len(other.parameters)

isCompatible(s, other) ==
    /\ s.returnType.name = other.returnType.name
    /\ Len(s.parameters) = Len(other.parameters)
    /\ \A i \in 1..Len(s.parameters) :
          s.parameters[i].type.name = other.parameters[i].type.name

(***************************************************************************)
(* ClassDef::hasCyclicInheritance                                          *)
(***************************************************************************)
RECURSIVE cyclicWalk(_, _, _, _)
cyclicWalk(name, current, visited, defs) ==
    IF current = "Object" \/ current = "" THEN FALSE
    ELSE IF current \in visited THEN TRUE
    ELSE IF ~Has(defs, current) THEN FALSE
    ELSE LET up == defs[current].parent IN
         IF up = name THEN TRUE
         ELSE cyclicWalk(name, up, visited \cup {current}, defs)

\* variant that finds no cycle
hasCyclicInheritance_never(name, defs) == FALSE

hasCyclicInheritance(name, defs) == cyclicWalk(name, name, {}, defs)

(***************************************************************************)
(* SemanticAnalyzer::initObjectMethods                                     *)
(***************************************************************************)
ObjectMethods ==
    [m \in {"print", "printInt32", "inputInt32", "inputString",
            "printBool", "inputBool", "inputLine"} |->
        CASE m = "print" ->
               MethodSignature(m, <<FormalParam("s", TypeString)>>, TypeObject)
          [] m = "printInt32" ->
               MethodSignature(m, <<FormalParam("i", TypeInt32)>>, TypeObject)
          [] m = "inputInt32" -> MethodSignature(m, <<>>, TypeInt32)
          [] m = "inputString" -> MethodSignature(m, <<>>, TypeString)
          [] m = "printBool" ->
               MethodSignature(m, <<FormalParam("b", TypeBoolean)>>, TypeObject)
          [] m = "inputBool" -> MethodSignature(m, <<>>, TypeBoolean)
          [] m = "inputLine" -> MethodSignature(m, <<>>, TypeString)]

initObjectMethods ==
    [n \in {"Object"} |-> [ClassDef("Object", "") EXCEPT !.methods = ObjectMethods]]

(***************************************************************************)
(* SemanticAnalyzer: type names, ancestor walks                            *)
(***************************************************************************)
isTypeValid(typeName, defs) ==
    IF IsPrimitiveName(typeName) THEN TRUE ELSE Has(defs, typeName)

resolveType(typeName, defs) ==
    IF typeName = "int32" THEN TypeInt32
    ELSE IF typeName = "bool" THEN TypeBoolean
    ELSE IF typeName = "string" THEN TypeString
    ELSE IF typeName = "unit" THEN TypeUnit
    ELSE IF Has(defs, typeName) THEN MkType(typeName, "CLASS")
    ELSE IF typeName = "Object" THEN TypeObject
    ELSE TypeError

\* std::optional results
NoType == [found |-> FALSE, value |-> TypeError]
SomeType(t) == [found |-> TRUE, value |-> t]
NoSignature == [found |-> FALSE, value |-> MethodSignature("", <<>>, TypeError)]
SomeSignature(s) == [found |-> TRUE, value |-> s]

RECURSIVE findFieldType(_, _, _)
findFieldType(className, fieldName, defs) ==
    IF className = "" THEN NoType
    ELSE IF ~Has(defs, className) THEN NoType
    ELSE IF Has(defs[className].fields, fieldName)
         THEN SomeType(defs[className].fields[fieldName])
    ELSE IF className = "Object" THEN NoType
    ELSE findFieldType(defs[className].parent, fieldName, defs)

RECURSIVE findMethodSignature(_, _, _)
findMethodSignature(className, methodName, defs) ==
    IF className = "" THEN NoSignature
    ELSE IF ~Has(defs, className) THEN NoSignature
    ELSE IF Has(defs[className].methods, methodName)
         THEN SomeSignature(defs[className].methods[methodName])
    ELSE IF className = "Object" THEN NoSignature
    ELSE findMethodSignature(defs[className].parent, methodName, defs)

(***************************************************************************)
(* SemanticAnalyzer::findCommonAncestor                                    *)
(***************************************************************************)
\* first loop: the set of names on type1's chain, or failure on a broken chain
RECURSIVE collectAncestors(_, _, _)
collectAncestors(current, acc, defs) ==
    IF current = "" THEN [ok |-> TRUE, names |-> acc]
    ELSE IF current = "Object" THEN [ok |-> TRUE, names |-> acc \cup {current}]
    ELSE IF ~Has(defs, current) THEN [ok |-> FALSE, names |-> acc \cup {current}]
    ELSE collectAncestors(defs[current].parent, acc \cup {current}, defs)

\* second loop: the first name on type2's chain that is in ancestors1
\* variant that does not walk type2's chain
firstCommon_noWalk(current, ancestors1, defs) == TypeObject

RECURSIVE firstCommon(_, _, _)
firstCommon(current, ancestors1, defs) ==
    IF current = "" THEN TypeObject
    ELSE IF current \in ancestors1 THEN MkType(current, "CLASS")
    ELSE IF current = "Object" THEN TypeObject
    ELSE IF ~Has(defs, current) THEN TypeError
    ELSE firstCommon(defs[current].parent, ancestors1, defs)

\* variant that yields type1 whichever of the two conforms to the other
findCommonAncestor_sameReturn(type1, type2, defs) ==
    IF isError(type1) \/ isError(type2) THEN TypeError
    ELSE IF ~isTypeValid(type1.name, defs) \/ ~isTypeValid(type2.name, defs)
         THEN TypeError
    ELSE IF type1.name = type2.name THEN type1
    ELSE IF conformsTo(type1, type2, defs) THEN type1
    ELSE IF conformsTo(type2, type1, defs) THEN type1
    ELSE IF type1.kind = "PRIMITIVE" \/ type2.kind = "PRIMITIVE" THEN TypeObject
    ELSE LET a1 == collectAncestors(type1.name, {}, defs) IN
         IF ~a1.ok THEN TypeError
         ELSE firstCommon(type2.name, a1.names, defs)

findCommonAncestor(type1, type2, defs) ==
    IF isError(type1) \/ isError(type2) THEN TypeError
    ELSE IF ~isTypeValid(type1.name, defs) \/ ~isTypeValid(type2.name, defs)
         THEN TypeError
    ELSE IF type1.name = type2.name THEN type1
    ELSE IF conformsTo(type1, type2, defs) THEN type2
    ELSE IF conformsTo(type2, type1, defs) THEN type1
    ELSE IF type1.kind = "PRIMITIVE" \/ type2.kind = "PRIMITIVE" THEN TypeObject
    ELSE LET a1 == collectAncestors(type1.name, {}, defs) IN
         IF ~a1.ok THEN TypeError
         ELSE firstCommon(type2.name, a1.names, defs)

(***************************************************************************)
(* The ancestor walks again, as the number of classes other than Object    *)
(* whose definition the loop looks up; a walk still going after `limit`    *)
(* lookups is cut there.                                                   *)
(***************************************************************************)
\* the loop of Type::conformsTo
RECURSIVE conformsWalkVisits(_, _, _, _, _)
conformsWalkVisits(current, other, defs, n, limit) ==
    IF n > limit \/ current = "Object" \/ current = "" THEN n
    ELSE IF ~Has(defs, current) \/ defs[current].parent = other.name THEN n + 1
    ELSE conformsWalkVisits(defs[current].parent, other, defs, n + 1, limit)

RECURSIVE findFieldTypeVisits(_, _, _, _, _)
findFieldTypeVisits(current_class, fieldName, defs, n, limit) ==
    IF n > limit \/ current_class = "" \/ current_class = "Object" THEN n
    ELSE IF ~Has(defs, current_class) \/ Has(defs[current_class].fields, fieldName)
         THEN n + 1
    ELSE findFieldTypeVisits(defs[current_class].parent, fieldName, defs, n + 1, limit)

RECURSIVE findMethodSignatureVisits(_, _, _, _, _)
findMethodSignatureVisits(current_class, methodName, defs, n, limit) ==
    IF n > limit \/ current_class = "" \/ current_class = "Object" THEN n
    ELSE IF ~Has(defs, current_class) \/ Has(defs[current_class].methods, methodName)
         THEN n + 1
    ELSE findMethodSignatureVisits(defs[current_class].parent, methodName, defs, n + 1,
                                   limit)

\* the two loops of findCommonAncestor
RECURSIVE collectAncestorsVisits(_, _, _, _)
collectAncestorsVisits(current, defs, n, limit) ==
    IF n > limit \/ current = "" \/ current = "Object" THEN n
    ELSE IF ~Has(defs, current) THEN n + 1
    ELSE collectAncestorsVisits(defs[current].parent, defs, n + 1, limit)

RECURSIVE firstCommonVisits(_, _, _, _, _)
firstCommonVisits(current, ancestors1, defs, n, limit) ==
    IF n > limit \/ current = "" \/ current = "Object" THEN n
    ELSE IF current \in ancestors1 \/ ~Has(defs, current) THEN n + 1
    ELSE firstCommonVisits(defs[current].parent, ancestors1, defs, n + 1, limit)

(***************************************************************************)
(* SemanticAnalyzer::buildClassDefinitions                                 *)
(***************************************************************************)
RECURSIVE buildLoop(_, _, _)
buildLoop(prog, i, st) ==
    IF i > Len(prog) THEN st
    ELSE LET cls == prog[i] IN
         IF IsPrimitiveName(cls.name)
         THEN buildLoop(prog, i + 1,
                [st EXCEPT !.errs = Append(@, Diag("redefine_primitive", cls.name, ""))])
         ELSE IF cls.name = "Object"
         THEN buildLoop(prog, i + 1,
                [st EXCEPT !.errs = Append(@, Diag("redefine_object", cls.name, ""))])
         ELSE IF cls.name \in st.defined
         THEN buildLoop(prog, i + 1,
                [st EXCEPT !.errs = Append(@, Diag("redefine_class", cls.name, ""))])
         ELSE buildLoop(prog, i + 1,
                [st EXCEPT
                   !.table = Put(@, cls.name, i),
                   !.defs = Put(@, cls.name,
                                ClassDef(cls.name,
                                         IF cls.parent = "" THEN "Object" ELSE cls.parent)),
                   !.defined = @ \cup {cls.name}])

buildClassDefinitions(prog, errs, defs) ==
    buildLoop(prog, 1,
              [errs |-> errs, table |-> EmptyMap, defs |-> defs, defined |-> {"Object"}])

(***************************************************************************)
(* SemanticAnalyzer::validateInheritanceHierarchy, body of the loop        *)
(***************************************************************************)
\* variant that does not check that the parent is defined
validateClass_noParentCheck(name, defs, errs) ==
    LET parent_name == defs[name].parent IN
    IF name = "Object" THEN errs
    ELSE IF IsPrimitiveName(parent_name)
         THEN Append(errs, Diag("extends_primitive", name, parent_name))
    ELSE IF hasCyclicInheritance(name, defs)
         THEN Append(errs, Diag("cyclic_inheritance", name, ""))
    ELSE errs

validateClass(name, defs, errs) ==
    LET parent_name == defs[name].parent IN
    IF name = "Object" THEN errs
    ELSE IF IsPrimitiveName(parent_name)
         THEN Append(errs, Diag("extends_primitive", name, parent_name))
    ELSE IF ~Has(defs, parent_name)
         THEN Append(errs, Diag("extends_undefined", name, parent_name))
    ELSE IF hasCyclicInheritance(name, defs)
         THEN Append(errs, Diag("cyclic_inheritance", name, ""))
    ELSE errs

(***************************************************************************)
(* SemanticAnalyzer::collectMethodsAndFields, body of the loop over        *)
(* class_table for one class                                               *)
(***************************************************************************)
\* the field loop; st = [def, errs, local]
RECURSIVE collectFields(_, _, _, _, _)
collectFields(name, fs, i, st, defs) ==
    IF i > Len(fs) THEN st
    ELSE LET field_node == fs[i]
             seen == [st EXCEPT !.local = @ \cup {field_node.name}]
             field_type == resolveType(field_node.type, defs)
         IN
         IF field_node.name \in st.local
         THEN collectFields(name, fs, i + 1,
                [st EXCEPT !.errs = Append(@, Diag("field_redefined", name, field_node.name))],
                defs)
         ELSE IF findFieldType(st.def.parent, field_node.name, defs).found
         THEN collectFields(name, fs, i + 1,
                [seen EXCEPT !.errs = Append(@, Diag("field_shadows", name, field_node.name))],
                defs)
         ELSE IF isError(field_type)
         THEN collectFields(name, fs, i + 1,
                [seen EXCEPT !.errs = Append(@, Diag("field_unknown_type", name, field_node.name))],
                defs)
         ELSE collectFields(name, fs, i + 1,
                [seen EXCEPT !.def.fields = Put(@, field_node.name, field_type)],
                defs)

\* the loop over the formals of one method; st = [params, names, errs, bad]
RECURSIVE collectFormals(_, _, _, _, _)
collectFormals(method_name, formals, i, st, defs) ==
    IF i > Len(formals) THEN st
    ELSE LET formal_node == formals[i]
             param_type == resolveType(formal_node.type, defs)
             e1 == IF formal_node.name \in st.names
                   THEN <<Diag("duplicate_parameter", method_name, formal_node.name)>>
                   ELSE <<>>
             e2 == IF formal_node.name = "self"
                   THEN <<Diag("parameter_self", method_name, formal_node.name)>>
                   ELSE <<>>
             e3 == IF isError(param_type)
                   THEN <<Diag("parameter_unknown_type", method_name, formal_node.name)>>
                   ELSE <<>>
         IN collectFormals(method_name, formals, i + 1,
                [params |-> Append(st.params, FormalParam(formal_node.name, param_type)),
                 names |-> st.names \cup {formal_node.name},
                 errs |-> st.errs \o e1 \o e2 \o e3,
                 bad |-> st.bad \/ e1 # <<>> \/ e2 # <<>> \/ e3 # <<>>],
                defs)

\* the method loop; st = [def, errs, local]
RECURSIVE collectMethods(_, _, _, _, _)
collectMethods(name, ms, i, st, defs) ==
    IF i > Len(ms) THEN st
    ELSE LET method_node == ms[i] IN
         IF method_node.name \in st.local
         THEN collectMethods(name, ms, i + 1,
                [st EXCEPT !.errs = Append(@, Diag("method_redefined", name, method_node.name))],
                defs)
         ELSE
         LET seen == [st EXCEPT !.local = @ \cup {method_node.name}]
             fl == collectFormals(method_node.name, method_node.formals, 1,
                       [params |-> <<>>, names |-> {}, errs |-> seen.errs, bad |-> FALSE],
                       defs)
             return_type == resolveType(method_node.return_type, defs)
             errs2 == IF isError(return_type)
                      THEN Append(fl.errs, Diag("unknown_return_type", method_node.name,
                                                method_node.return_type))
                      ELSE fl.errs
             param_type_error == fl.bad \/ isError(return_type)
             current_sig == MethodSignature(method_node.name, fl.params, return_type)
             parent_sig_opt == findMethodSignature(seen.def.parent, method_node.name, defs)
         IN
         IF param_type_error
         THEN collectMethods(name, ms, i + 1, [seen EXCEPT !.errs = errs2], defs)
         ELSE IF parent_sig_opt.found /\ ~isCompatible(current_sig, parent_sig_opt.value)
         THEN collectMethods(name, ms, i + 1,
                [seen EXCEPT !.errs = Append(errs2,
                                   Diag("incompatible_override", name, method_node.name))],
                defs)
         ELSE collectMethods(name, ms, i + 1,
                [seen EXCEPT !.errs = errs2,
                             !.def.methods = Put(@, method_node.name, current_sig)],
                defs)

\* one iteration: the fields of the class, then its methods
collectClass(name, cls_node, defs, errs) ==
    LET f == collectFields(name, cls_node.fields, 1,
                           [def |-> defs[name], errs |-> errs, local |-> {}], defs)
        m == collectMethods(name, cls_node.methods, 1,
                            [def |-> f.def, errs |-> f.errs, local |-> {}], defs)
    IN [defs |-> Put(defs, name, m.def), errs |-> m.errs]

(***************************************************************************)
(* SemanticAnalyzer::analyze: the gates between the passes and the check   *)
(* for Main.main                                                           *)
(***************************************************************************)
\* variant that goes on to the next pass whatever was reported
gate_open(errs, next) == next

\* if (!errors.empty()) return false;
gate(errs, next) == IF errs # <<>> THEN "failed" ELSE next

\* variant that looks main up through the ancestors of Main
checkMain_inherited(defs, errs) ==
    IF ~Has(defs, "Main") THEN Append(errs, Diag("no_main_class", "Main", ""))
    ELSE IF ~findMethodSignature("Main", "main", defs).found
         THEN Append(errs, Diag("no_main_method", "Main", "main"))
    ELSE LET main_sig == findMethodSignature("Main", "main", defs).value IN
         errs
         \o (IF main_sig.parameters # <<>>
             THEN <<Diag("main_has_parameters", "Main", "main")>> ELSE <<>>)
         \o (IF main_sig.returnType.name # "int32"
             THEN <<Diag("main_return_type", "Main", "main")>> ELSE <<>>)

checkMain(defs, errs) ==
    IF ~Has(defs, "Main") THEN Append(errs, Diag("no_main_class", "Main", ""))
    ELSE IF ~Has(defs["Main"].methods, "main")
         THEN Append(errs, Diag("no_main_method", "Main", "main"))
    ELSE LET main_sig == defs["Main"].methods["main"] IN
         errs
         \o (IF main_sig.parameters # <<>>
             THEN <<Diag("main_has_parameters", "Main", "main")>> ELSE <<>>)
         \o (IF main_sig.returnType.name # "int32"
             THEN <<Diag("main_return_type", "Main", "main")>> ELSE <<>>)

(***************************************************************************)
(* TypeChecker: scopes, types of expressions, diagnostics                  *)
(*                                                                         *)
(* An expression node is a tuple whose first element is its kind:          *)
(*   <<"int">> <<"bool">> <<"string">> <<"unit">> <<"self">>               *)
(*   <<"id", name>>  <<"new", type_name>>  <<"unop", op, expr>>            *)
(*   <<"binop", op, left, right>>  <<"assign", name, expr>>                *)
(*   <<"if", condition, then_expr, else_expr>>  <<"while", condition, body>>*)
(*   <<"let", name, type, init_expr, scope_expr>>  <<"block", expressions>>*)
(* and NoExpr is the null child.  A visitor takes the checker state        *)
(* st = [errs, scopes, current_class] and yields the type it records for   *)
(* the node together with the state it leaves.                             *)
(***************************************************************************)
NoExpr == <<>>

ErrorName == "__error__"

Typed(ty, st) == [ty |-> ty, st |-> st]

\* TypeChecker::reportError: append unless the same string is already there
reportError(errs, d) ==
    IF \E i \in 1..Len(errs) : errs[i] = d THEN errs ELSE Append(errs, d)

report(st, d) == [st EXCEPT !.errs = reportError(@, d)]

reportIf(cond, st, d) == IF cond THEN report(st, d) ELSE st

enterScope(st) == [st EXCEPT !.scopes = <<EmptyMap>> \o @]

\* a visitor that forgets its exitScope
exitScope_forgotten(st) == st

exitScope(st) == IF st.scopes # <<>> THEN [st EXCEPT !.scopes = Tail(@)] ELSE st

\* a visit of a class, a method or a let is over: what scopes it was entered
\* with, what scopes it leaves, whether it reported anything
Visited(kind, name, before, st) ==
    [st EXCEPT !.visits = Append(@, [kind |-> kind, name |-> name,
                                     before |-> before.scopes, after |-> st.scopes,
                                     reported |-> st.errs # before.errs])]

addSymbol(st, name, type) ==
    IF st.scopes # <<>>
    THEN [st EXCEPT !.scopes = <<Put(Head(@), name, type)>> \o Tail(@)]
    ELSE st

RECURSIVE lookupScopes(_, _, _)
lookupScopes(scopes, i, name) ==
    IF i > Len(scopes) THEN ErrorName
    ELSE IF Has(scopes[i], name) THEN scopes[i][name]
    ELSE lookupScopes(scopes, i + 1, name)

lookupSymbol(name, st, defs) ==
    LET local == lookupScopes(st.scopes, 1, name) IN
    IF \E i \in 1..Len(st.scopes) : Has(st.scopes[i], name) THEN local
    ELSE IF st.current_class # "" /\ findFieldType(st.current_class, name, defs).found
         THEN findFieldType(st.current_class, name, defs).value.name
    ELSE ErrorName

isSubtypeOf(subtype_name, supertype_name, defs) ==
    IF subtype_name = supertype_name THEN TRUE
    ELSE IF subtype_name = ErrorName \/ supertype_name = ErrorName THEN TRUE
    ELSE LET subtype == resolveType(subtype_name, defs)
             supertype == resolveType(supertype_name, defs)
         IN IF isError(subtype) \/ isError(supertype) THEN FALSE
            ELSE conformsTo(subtype, supertype, defs)

getCommonAncestor(type1_name, type2_name, defs) ==
    LET type1 == resolveType(type1_name, defs)
        type2 == resolveType(type2_name, defs)
    IN IF isError(type1) \/ isError(type2) THEN ErrorName
       ELSE findCommonAncestor(type1, type2, defs).name

\* statements in sequence: x is computed before F is applied to it
Sequenced(x, F(_)) == CHOOSE r \in {F(v) : v \in {x}} : TRUE

RECURSIVE Visit(_, _, _)

\* if (child) child->accept(this); ... getExprType(child)
VisitOpt(e, st, defs) == IF e = NoExpr THEN Typed(ErrorName, st) ELSE Visit(e, st, defs)

VisitBinaryOp(node, st, defs) ==
    LET op == node[2]
        l == Visit(node[3], st, defs)
        r == Visit(node[4], l.st, defs)
        left_type == l.ty
        right_type == r.ty
        prims == {"int32", "bool", "string"}
        left_is_prim == left_type \in prims
        right_is_prim == right_type \in prims
    IN
    IF left_type = ErrorName \/ right_type = ErrorName THEN Typed(ErrorName, r.st)
    ELSE IF op = "and" THEN
        Typed(IF left_type = "bool" /\ right_type = "bool" THEN "bool" ELSE ErrorName,
              reportIf(right_type # "bool",
                       reportIf(left_type # "bool", r.st, Diag("and_left", left_type, "")),
                       Diag("and_right", right_type, "")))
    ELSE IF op = "=" THEN
        Typed("bool",
              IF left_type = "unit" \/ right_type = "unit"
              THEN reportIf(~(left_type = "unit" /\ right_type = "unit"), r.st,
                            Diag("eq_unit", "", ""))
              ELSE IF left_type = right_type THEN r.st
              ELSE IF left_is_prim # right_is_prim
              THEN report(r.st, Diag("eq_primitive_class",
                                     IF left_is_prim THEN left_type ELSE right_type,
                                     IF left_is_prim THEN right_type ELSE left_type))
              ELSE IF left_is_prim /\ right_is_prim
              THEN report(r.st, Diag("eq_distinct_primitives", left_type, right_type))
              ELSE r.st)
    ELSE IF op \in {"<", "<="} THEN
        Typed(IF left_type = "int32" /\ right_type = "int32" THEN "bool" ELSE ErrorName,
              reportIf(right_type # "int32",
                       reportIf(left_type # "int32", r.st, Diag("rel_left", op, left_type)),
                       Diag("rel_right", op, right_type)))
    ELSE IF op \in {"+", "-", "*", "/", "^"} THEN
        Typed(IF left_type = "int32" /\ right_type = "int32" THEN "int32" ELSE ErrorName,
              reportIf(right_type # "int32",
                       reportIf(left_type # "int32", r.st, Diag("arith_left", op, left_type)),
                       Diag("arith_right", op, right_type)))
    ELSE Typed(ErrorName, report(r.st, Diag("unknown_binary_operator", op, "")))

VisitUnaryOp(node, st, defs) ==
    LET op == node[2]
        o == Visit(node[3], st, defs)
        operand_type == o.ty
    IN
    IF operand_type = ErrorName THEN Typed(ErrorName, o.st)
    ELSE IF op = "not" THEN
        IF operand_type # "bool"
        THEN Typed(ErrorName, report(o.st, Diag("not_operand", operand_type, "")))
        ELSE Typed("bool", o.st)
    ELSE IF op = "-" THEN
        IF operand_type # "int32"
        THEN Typed(ErrorName, report(o.st, Diag("minus_operand", operand_type, "")))
        ELSE Typed("int32", o.st)
    ELSE IF op = "isnull" THEN
        IF IsPrimitiveName(operand_type)
        THEN Typed(ErrorName, report(o.st, Diag("isnull_operand", operand_type, "")))
        ELSE Typed("bool", o.st)
    ELSE Typed(ErrorName, report(o.st, Diag("unknown_unary_operator", op, "")))

\* variant that gives the Error type without a diagnostic
VisitNew_silent(node, st, defs) ==
    IF ~isTypeValid(node[2], defs) \/ IsPrimitiveName(node[2]) THEN Typed(ErrorName, st)
    ELSE Typed(node[2], st)

VisitNew(node, st, defs) ==
    LET type_name == node[2] IN
    IF ~isTypeValid(type_name, defs)
    THEN Typed(ErrorName, report(st, Diag("new_unknown_type", type_name, "")))
    ELSE IF IsPrimitiveName(type_name)
    THEN Typed(ErrorName, report(st, Diag("new_primitive", type_name, "")))
    ELSE Typed(type_name, st)

\* setExprType(node, ...) of a let: the scopes its parts were checked with,
\* their types, and the errors recorded when the let is left
typedLet(node, before, st0, declared_type, init, entered, body) ==
    Typed(IF declared_type = ErrorName THEN ErrorName ELSE body.ty,
          [exitScope(body.st) EXCEPT !.expr_types =
              Append(@, [kind |-> "let", name |-> node[2], declared |-> declared_type,
                         has_init |-> node[4] # NoExpr,
                         enclosing |-> before.scopes, init_scopes |-> st0.scopes,
                         init_type |-> init.ty, body_scopes |-> entered.scopes,
                         body_type |-> body.ty, after |-> exitScope(body.st).scopes,
                         type |-> IF declared_type = ErrorName THEN ErrorName ELSE body.ty,
                         errs |-> body.st.errs])])

\* enterScope(); addSymbol(...); the body; exitScope()
letBody(node, before, st0, declared_type, init, entered, defs) ==
    Sequenced(VisitOpt(node[5], entered, defs),
              LAMBDA body : typedLet(node, before, st0, declared_type, init, entered, body))

\* the check of the initialiser's type, made before the scope is entered
letScope(node, before, st0, declared_type, init, defs) ==
    letBody(node, before, st0, declared_type, init,
            addSymbol(enterScope(IF node[4] = NoExpr THEN st0
                                 ELSE reportIf(/\ declared_type # ErrorName
                                               /\ init.ty # ErrorName
                                               /\ ~isSubtypeOf(init.ty, declared_type, defs),
                                               init.st,
                                               Diag4("let_init_type", node[2], declared_type,
                                                     init.ty))),
                      node[2], declared_type),
            defs)

typeLet(node, st, defs) ==
    LET valid == isTypeValid(node[3], defs)
        declared_type == IF valid THEN node[3] ELSE ErrorName
        st0 == reportIf(~valid, st, Diag("let_unknown_type", node[3], node[2]))
    IN Sequenced(VisitOpt(node[4], st0, defs),
                 LAMBDA init : letScope(node, st, st0, declared_type, init, defs))

\* the scope stack as the let found it and as it leaves it
VisitLet(node, st, defs) ==
    LET r == typeLet(node, st, defs) IN Typed(r.ty, Visited("let", node[2], st, r.st))

VisitIf(node, st, defs) ==
    LET c == Visit(node[2], st, defs)
        condition_type == c.ty
        st1 == reportIf(condition_type # "bool" /\ condition_type # ErrorName, c.st,
                        Diag("if_condition", condition_type, ""))
        t == Visit(node[3], st1, defs)
        has_else == node[4] # NoExpr
        e == IF has_else THEN Visit(node[4], t.st, defs) ELSE Typed("unit", t.st)
    IN
    IF condition_type = ErrorName \/ t.ty = ErrorName \/ (has_else /\ e.ty = ErrorName)
    THEN Typed(ErrorName, e.st)
    ELSE IF ~has_else THEN Typed("unit", e.st)
    ELSE Typed(getCommonAncestor(t.ty, e.ty, defs), e.st)

VisitWhile(node, st, defs) ==
    LET c == Visit(node[2], st, defs)
        condition_type == c.ty
        st1 == reportIf(condition_type # "bool" /\ condition_type # ErrorName, c.st,
                        Diag("while_condition", condition_type, ""))
        b == VisitOpt(node[3], st1, defs)
    IN Typed(IF condition_type = ErrorName \/ b.ty = ErrorName THEN ErrorName ELSE "unit",
             b.st)

VisitAssign(node, st, defs) ==
    LET name == node[2]
        var_type == lookupSymbol(name, st, defs)
        v == Visit(node[3], st, defs)
    IN
    IF var_type = ErrorName
    THEN Typed(ErrorName, report(st, Diag("assign_undefined", name, "")))
    ELSE IF name = "self"
    THEN Typed(ErrorName, report(st, Diag("assign_self", name, "")))
    ELSE IF v.ty = ErrorName THEN Typed(ErrorName, v.st)
    ELSE Typed(v.ty, reportIf(~isSubtypeOf(v.ty, var_type, defs), v.st,
                              Diag4("assign_type", name, v.ty, var_type)))

VisitIdentifier(node, st, defs) ==
    LET type == lookupSymbol(node[2], st, defs) IN
    Typed(type, reportIf(type = ErrorName, st, Diag("undefined_identifier", node[2], "")))

VisitSelf(node, st, defs) ==
    LET self_type == lookupSymbol("self", st, defs) IN
    Typed(self_type, reportIf(self_type = ErrorName, st, Diag("self_outside_class", "", "")))

\* the loop of visit(const Block*); acc = [st, last, error_in_block]
RECURSIVE blockLoop(_, _, _, _)
blockLoop(es, i, acc, defs) ==
    IF i > Len(es) THEN acc
    ELSE IF es[i] = NoExpr
    THEN blockLoop(es, i + 1, [acc EXCEPT !.error_in_block = TRUE], defs)
    ELSE Sequenced(Visit(es[i], acc.st, defs),
                   LAMBDA x :
                     blockLoop(es, i + 1,
                               [st |-> x.st,
                                last |-> IF i = Len(es) THEN x.ty ELSE acc.last,
                                error_in_block |-> acc.error_in_block \/ x.ty = ErrorName],
                               defs))

VisitBlock(node, st, defs) ==
    IF node[2] = <<>> THEN Typed("unit", st)
    ELSE LET b == blockLoop(node[2], 1,
                            [st |-> st, last |-> "unit", error_in_block |-> FALSE], defs)
         IN Typed(IF b.error_in_block THEN ErrorName ELSE b.last, b.st)

\* TypeChecker::getMethodReturnType; the loop over the arguments first
RECURSIVE firstMismatch(_, _, _, _)
firstMismatch(argTypes, parameters, i, defs) ==
    IF i > Len(argTypes) THEN 0
    ELSE IF ~isSubtypeOf(argTypes[i], parameters[i].type.name, defs) THEN i
    ELSE firstMismatch(argTypes, parameters, i + 1, defs)

getMethodReturnType(className, methodName, argTypes, st, defs) ==
    LET sig_opt == findMethodSignature(className, methodName, defs)
        signature == sig_opt.value
        builtin ==
            /\ className = "Object"
            /\ \/ /\ methodName = "print"
                  /\ Len(argTypes) = 1 /\ isSubtypeOf(argTypes[1], "string", defs)
               \/ /\ methodName = "printInt32"
                  /\ Len(argTypes) = 1 /\ isSubtypeOf(argTypes[1], "int32", defs)
               \/ methodName \in {"inputInt32", "inputString"} /\ argTypes = <<>>
    IN
    IF ~sig_opt.found
    THEN IF builtin
         THEN Typed(CASE methodName = "inputInt32" -> "int32"
                      [] methodName = "inputString" -> "string"
                      [] OTHER -> "Object", st)
         ELSE Typed(ErrorName, report(st, Diag("method_not_found", methodName, className)))
    ELSE IF Len(signature.parameters) # Len(argTypes)
    THEN Typed(ErrorName, report(st, Diag("argument_count", methodName, className)))
    ELSE IF firstMismatch(argTypes, signature.parameters, 1, defs) # 0
    THEN Typed(ErrorName, report(st, Diag("argument_type", methodName, className)))
    ELSE Typed(signature.returnType.name, st)

\* setExprType(node, result) of a call on a receiver of class type with
\* well-typed arguments: what it was typed from, and whether it reported
typedCall(object_type, method_name, arg_types, before, r) ==
    Typed(r.ty, [r.st EXCEPT !.expr_types =
                    Append(@, [kind |-> "call", class |-> object_type,
                               method |-> method_name, args |-> arg_types,
                               type |-> r.ty, errs |-> r.st.errs,
                               reported |-> r.st.errs # before.errs])])

\* the loop over node->arguments; acc = [st, arg_types, arg_error]
RECURSIVE callArguments(_, _, _, _)
callArguments(args, i, acc, defs) ==
    IF i > Len(args) THEN acc
    ELSE IF args[i] = NoExpr
    THEN callArguments(args, i + 1, [acc EXCEPT !.arg_error = TRUE], defs)
    ELSE Sequenced(Visit(args[i], acc.st, defs),
                   LAMBDA a :
                     callArguments(args, i + 1,
                                   [st |-> a.st,
                                    arg_types |-> Append(acc.arg_types, a.ty),
                                    arg_error |-> acc.arg_error \/ a.ty = ErrorName],
                                   defs))

VisitCall(node, st, defs) ==
    LET method_name == node[3]
        o == IF node[2] # NoExpr THEN Visit(node[2], st, defs)
             ELSE Typed(lookupSymbol("self", st, defs), st)
        object_type == o.ty
        args == callArguments(node[4], 1,
                              [st |-> o.st, arg_types |-> <<>>, arg_error |-> FALSE], defs)
    IN
    IF node[2] = NoExpr /\ object_type = ErrorName
    THEN Typed(ErrorName, report(st, Diag("call_outside_class", method_name, "")))
    ELSE IF object_type = ErrorName THEN Typed(ErrorName, o.st)
    ELSE IF IsPrimitiveName(object_type)
    THEN Typed(ErrorName, report(o.st, Diag("call_on_primitive", method_name, object_type)))
    ELSE IF args.arg_error THEN Typed(ErrorName, args.st)
    ELSE typedCall(object_type, method_name, args.arg_types, args.st,
                   getMethodReturnType(object_type, method_name, args.arg_types, args.st,
                                       defs))

VisitNode(e, st, defs) ==
    CASE e[1] = "int" -> Typed("int32", st)
      [] e[1] = "bool" -> Typed("bool", st)
      [] e[1] = "string" -> Typed("string", st)
      [] e[1] = "unit" -> Typed("unit", st)
      [] e[1] = "self" -> VisitSelf(e, st, defs)
      [] e[1] = "id" -> VisitIdentifier(e, st, defs)
      [] e[1] = "new" -> VisitNew(e, st, defs)
      [] e[1] = "unop" -> VisitUnaryOp(e, st, defs)
      [] e[1] = "binop" -> VisitBinaryOp(e, st, defs)
      [] e[1] = "assign" -> VisitAssign(e, st, defs)
      [] e[1] = "if" -> VisitIf(e, st, defs)
      [] e[1] = "while" -> VisitWhile(e, st, defs)
      [] e[1] = "let" -> VisitLet(e, st, defs)
      [] e[1] = "block" -> VisitBlock(e, st, defs)
      [] e[1] = "call" -> VisitCall(e, st, defs)

\* setExprType(node, type): whether some node was given the Error type, and
\* whether one was while the error list was still empty
Noted(r) ==
    Typed(r.ty, [r.st EXCEPT !.typed_error =
                    [any |-> @.any \/ r.ty = ErrorName,
                     silent |-> @.silent \/ (r.ty = ErrorName /\ r.st.errs = <<>>)]])

\* node->accept(this), reached with the state the statements before it left
Visit(e, st, defs) ==
    CHOOSE r \in {Noted(x) : x \in {VisitNode(e, st0, defs) : st0 \in {st}}} : TRUE

(***************************************************************************)
(* TypeChecker: visitors of the declarations, and the second pass of       *)
(* TypeChecker::check                                                      *)
(***************************************************************************)
VisitField(node, st, defs) ==
    LET valid == isTypeValid(node.type, defs)
        st0 == reportIf(~valid, st, Diag("field_unknown_type", node.type, node.name))
    IN IF node.init_expr = NoExpr THEN st0
       ELSE Sequenced(Visit(node.init_expr, st0, defs),
                      LAMBDA init :
                        reportIf(/\ valid
                                 /\ init.ty # ErrorName
                                 /\ ~isSubtypeOf(init.ty, node.type, defs),
                                 init.st,
                                 Diag4("field_init_type", node.name, node.type, init.ty)))

VisitFormal(node, st, defs) ==
    IF ~isTypeValid(node.type, defs)
    THEN report(st, Diag("parameter_unknown_type", node.type, node.name))
    ELSE addSymbol(st, node.name, node.type)

\* the loop over the formals; acc = [st, formal_names]
RECURSIVE formalsLoop(_, _, _, _)
formalsLoop(formals, i, acc, defs) ==
    IF i > Len(formals) THEN acc
    ELSE LET formal == formals[i]
             st0 == reportIf(formal.name \in acc.formal_names, acc.st,
                             Diag("duplicate_parameter", formal.name, ""))
         IN formalsLoop(formals, i + 1,
                        [st |-> VisitFormal(formal, st0, defs),
                         formal_names |-> acc.formal_names \cup {formal.name}],
                        defs)

typeMethod(node, st, defs) ==
    LET st0 == addSymbol(enterScope(st), "self", st.current_class)
        valid == isTypeValid(node.return_type, defs)
        st1 == reportIf(~valid, st0, Diag("unknown_return_type", node.return_type, node.name))
        st2 == formalsLoop(node.formals, 1, [st |-> st1, formal_names |-> {}], defs).st
    IN
    Sequenced(VisitOpt(node.body, st2, defs),
              LAMBDA body :
                exitScope(IF node.body # NoExpr
                          THEN reportIf(/\ body.ty # ErrorName
                                        /\ valid
                                        /\ ~isSubtypeOf(body.ty, node.return_type, defs),
                                        body.st,
                                        Diag4("body_type", node.name, body.ty,
                                              node.return_type))
                          ELSE reportIf(valid /\ node.return_type # "unit", body.st,
                                        Diag("no_body", node.name, node.return_type))))

VisitMethod(node, st, defs) == Visited("method", node.name, st, typeMethod(node, st, defs))

RECURSIVE fieldsLoop(_, _, _, _)
fieldsLoop(fs, i, st, defs) ==
    IF i > Len(fs) THEN st
    ELSE Sequenced(VisitField(fs[i], st, defs), LAMBDA st1 : fieldsLoop(fs, i + 1, st1, defs))

RECURSIVE methodsLoop(_, _, _, _)
methodsLoop(ms, i, st, defs) ==
    IF i > Len(ms) THEN st
    ELSE Sequenced(VisitMethod(ms[i], st, defs), LAMBDA st1 : methodsLoop(ms, i + 1, st1, defs))

typeClass(node, st, defs) ==
    LET st0 == addSymbol(enterScope([st EXCEPT !.current_class = node.name]),
                         "self", node.name)
        st1 == fieldsLoop(node.fields, 1, st0, defs)
        st2 == methodsLoop(node.methods, 1, st1, defs)
    IN [exitScope(st2) EXCEPT !.current_class = ""]

VisitClass(node, st, defs) == Visited("class", node.name, st, typeClass(node, st, defs))

\* the checker as its constructor leaves it: one global scope
TypeCheckerInit ==
    [errs |-> <<>>, scopes |-> <<EmptyMap>>, current_class |-> "", visits |-> <<>>,
     typed_error |-> [any |-> FALSE, silent |-> FALSE], expr_types |-> <<>>]

\* TypeChecker::check, body of the loop over program->classes: the checker
\* comes to a class with the errors it has so far and its global scope
checkClass(cls, errs, visits, noted, typed, defs) ==
    VisitClass(cls, [TypeCheckerInit EXCEPT !.errs = errs, !.visits = visits,
                                            !.typed_error = noted,
                                            !.expr_types = typed], defs)

(***************************************************************************)
(* CodeGenerator (Semantic_Analysis): declareClasses and the loop body of  *)
(* defineClassStructures                                                   *)
(***************************************************************************)
ClassLayout(p) ==
    [parent |-> p, field_indices |-> EmptyMap, body |-> <<>>, methods |-> EmptyMap]

RECURSIVE declareLoop(_, _, _)
declareLoop(prog, i, layouts) ==
    IF i > Len(prog) THEN layouts
    ELSE IF prog[i].name = "Object" THEN declareLoop(prog, i + 1, layouts)
    ELSE declareLoop(prog, i + 1,
            Put(layouts, prog[i].name,
                ClassLayout(IF prog[i].parent = "" THEN "Object" ELSE prog[i].parent)))

declareClasses(prog) == declareLoop(prog, 1, EmptyMap)

\* the loop over cls->fields; acc = [field_types, field_indices, field_idx]
RECURSIVE ownFieldsLoop(_, _, _)
ownFieldsLoop(fs, i, acc) ==
    IF i > Len(fs) THEN acc
    ELSE ownFieldsLoop(fs, i + 1,
            [field_types |-> Append(acc.field_types, fs[i].type),
             field_indices |-> Put(acc.field_indices, fs[i].name, acc.field_idx),
             field_idx |-> acc.field_idx + 1])

\* what the class takes over from its parent's layout as it is at that moment
inheritedLayout(layout, layouts) ==
    IF layout.parent # "" /\ layout.parent # "Object" /\ Has(layouts, layout.parent)
    THEN LET parent_layout == layouts[layout.parent] IN
         [field_types |-> <<"vtable">> \o
                          (IF parent_layout.body = <<>> THEN <<>> ELSE Tail(parent_layout.body)),
          field_indices |-> [f \in (DOMAIN layout.field_indices)
                                      \cup (DOMAIN parent_layout.field_indices) |->
                                IF Has(parent_layout.field_indices, f)
                                THEN parent_layout.field_indices[f]
                                ELSE layout.field_indices[f]]]
    ELSE [field_types |-> <<"vtable">>, field_indices |-> layout.field_indices]

defineClassStructure(cls, layouts) ==
    IF cls.name = "Object" THEN layouts
    ELSE LET layout == layouts[cls.name]
             inh == inheritedLayout(layout, layouts)
             own == ownFieldsLoop(cls.fields, 1,
                        [field_types |-> inh.field_types,
                         field_indices |-> inh.field_indices,
                         field_idx |-> Len(inh.field_types)])
         IN Put(layouts, cls.name,
                [layout EXCEPT !.field_indices = own.field_indices,
                               !.body = own.field_types])

\* what malloc'ed memory holds where the constructor stores nothing
MallocContents == {"zero", "junk"}

\* generateClassConstructor: the object new_<class> returns, slot by slot: a
\* null dispatch pointer, zero or null in the slot of each entry of
\* field_indices, the memory as malloc left it elsewhere
generateClassConstructor(layout, heap) ==
    [i \in 1..Len(layout.body) |->
        IF i = 1 THEN <<"null">>
        ELSE IF \E f \in DOMAIN layout.field_indices : layout.field_indices[f] = i - 1
        THEN <<"zero">>
        ELSE <<heap>>]

(***************************************************************************)
(* CodeGenerator (Code_Generation): includeRuntimeCode,                    *)
(* generateClassVTables and generateClassMethods.  A function of the       *)
(* module is named by the pair <<class, method>>; NullFunction is the      *)
(* null pointer a lookup in `methods` yields for a name never declared.    *)
(***************************************************************************)
FunctionName(c, m) == <<c, m>>

NullFunction == <<>>

\* the functions includeRuntimeCode declares
RuntimeMethods ==
    {FunctionName("Object", m) :
        m \in {"print", "printBool", "printInt32", "inputLine", "inputBool",
               "inputInt32", "_new", "_init"}}

\* generateClassVTables: object_methods
object_methods ==
    <<"print", "printInt32", "printBool", "inputInt32", "inputString", "inputBool",
      "inputLine">>

ObjectImplementations ==
    [m \in {object_methods[i] : i \in 1..Len(object_methods)} |-> FunctionName("Object", m)]

\* the orders in which an iteration can meet the keys of an unordered map
Orders(S) ==
    {o \in [1..Cardinality(S) -> S] : \A i, j \in 1..Cardinality(S) : o[i] = o[j] => i = j}

\* variant that leaves the implementation of the parent at an overridden slot
RECURSIVE addMethods_keepParent(_, _, _, _)
addMethods_keepParent(class_name, order, i, st) ==
    IF i > Len(order) THEN st
    ELSE LET method_name == order[i]
             found == \E k \in 1..Len(st.vtable) : st.vtable[k] = method_name
         IN addMethods_keepParent(class_name, order, i + 1,
                [vtable |-> IF found THEN st.vtable ELSE Append(st.vtable, method_name),
                 impls |-> IF found THEN st.impls
                           ELSE Put(st.impls, method_name,
                                    FunctionName(class_name, method_name))])

\* Step 1, the methods of one class in the order `order`;
\* st = [vtable, impls]
RECURSIVE addMethods(_, _, _, _)
addMethods(class_name, order, i, st) ==
    IF i > Len(order) THEN st
    ELSE LET method_name == order[i]
             found == \E k \in 1..Len(st.vtable) : st.vtable[k] = method_name
         IN addMethods(class_name, order, i + 1,
                [vtable |-> IF found THEN st.vtable ELSE Append(st.vtable, method_name),
                 impls |-> Put(st.impls, method_name, FunctionName(class_name, method_name))])

\* Step 1, body of the loop over class_defs for one class;
\* cg = [vtable_methods, implementations, errs]
collectVTable(class_name, order, defs, cg) ==
    LET parent_name == IF defs[class_name].parent = "" THEN "Object"
                       ELSE defs[class_name].parent
    IN
    IF class_name = "Object" \/ IsPrimitiveName(class_name) THEN cg
    ELSE IF ~Has(cg.vtable_methods, parent_name)
    THEN [cg EXCEPT !.errs = reportError(@, Diag("vtable_parent_not_found",
                                                  class_name, parent_name))]
    ELSE LET st == addMethods(class_name, order, 1,
                              [vtable |-> cg.vtable_methods[parent_name],
                               impls |-> cg.implementations[parent_name]])
         IN [cg EXCEPT !.vtable_methods = Put(@, class_name, st.vtable),
                       !.implementations = Put(@, class_name, st.impls)]

\* Steps 2 and 3, the loop over the slots of one table: the diagnostics of
\* the missing functions, under the message `kind`
RECURSIVE missingFunctions(_, _, _, _, _, _)
missingFunctions(kind, vtable, impls, declared, i, errs) ==
    IF i > Len(vtable) THEN errs
    ELSE LET func == impls[vtable[i]] IN
         missingFunctions(kind, vtable, impls, declared, i + 1,
             IF func \in declared THEN errs
             ELSE reportError(errs, Diag4(kind, func[1], func[2], "")))

\* Step 3, the constant of one class: a slot holds the function or, when
\* `methods` has none under that name, the null pointer
vtableInstance(vtable, impls, declared) ==
    [i \in 1..Len(vtable) |->
        IF impls[vtable[i]] \in declared THEN impls[vtable[i]] ELSE NullFunction]

\* generateClassMethods: the functions declared for the methods of the class
\* table, but for three of Object that the runtime has declared
classMethods(defs) ==
    UNION {{FunctionName(c, m) :
               m \in (DOMAIN defs[c].methods)
                      \ (IF c = "Object" THEN {"print", "printInt32", "inputInt32"} ELSE {})} :
           c \in DOMAIN defs}

(***************************************************************************)
(* CodeGenerator (Semantic_Analysis): the visitors of the expressions.     *)
(* An llvm::Value is known by the VSOP type whose LLVM type it has, and    *)
(* NullValue is the null pointer getExprValue yields for a node without a  *)
(* value.  A visitor takes the emitter                                     *)
(*   em = [defs, layouts, current_class, current_method, named_values,     *)
(*         allocas, errs, ill_formed, crashed, lets, calls]                *)
(* and yields the value it sets for the node with the emitter it leaves.   *)
(* `lets` and `calls` are histories: the variable map around each let,     *)
(* and the callee each call was resolved to.                               *)
(***************************************************************************)
NullValue == <<>>

Value(t) == <<"value", t>>

NullStorage == <<>>

\* the n-th alloca of the function, for a variable of type t
Alloca(name, n, t) == <<name, n, t>>

Remove(f, k) == [x \in (DOMAIN f) \ {k} |-> f[x]]

Emitted(val, em) == [val |-> val, em |-> em]

\* CodeGenerator::reportError (Semantic_Analysis): push_back
pushError(em, d) == IF em.crashed THEN em ELSE [em EXCEPT !.errs = Append(@, d)]

\* the module holds IR the verifier rejects
illFormed(em) == [em EXCEPT !.ill_formed = TRUE]

\* a null pointer is dereferenced: the process ends inside generate
crash(em) == [em EXCEPT !.crashed = TRUE]

\* getExprValue on the node a visitor has just left
getExprValue(r) ==
    IF r.val = NullValue
    THEN Emitted(NullValue, pushError(r.em, Diag("no_value", "", "")))
    ELSE r

\* getLLVMType: the type, or null and a diagnostic
NullType == ""

getLLVMType(vsop_type, em) ==
    IF IsPrimitiveName(vsop_type) \/ Has(em.layouts, vsop_type)
    THEN [type |-> vsop_type, em |-> em]
    ELSE [type |-> NullType, em |-> pushError(em, Diag("unknown_type", vsop_type, ""))]

\* getMethod: the function and the class it was found in
NoMethod == [func |-> NullFunction, class |-> ""]

BuiltinMethod(method_name) ==
    IF method_name \in {"print", "printBool", "printInt32", "inputInt32", "inputBool"}
    THEN [func |-> FunctionName("Object", method_name), class |-> "Object"]
    ELSE IF method_name \in {"inputLine", "inputString"}
    THEN [func |-> FunctionName("Object", "inputLine"), class |-> "Object"]
    ELSE NoMethod

RECURSIVE getMethodWalk(_, _, _)
getMethodWalk(current_class, method_name, layouts) ==
    IF current_class = "" \/ ~Has(layouts, current_class) THEN NoMethod
    ELSE IF Has(layouts[current_class].methods, method_name)
    THEN [func |-> FunctionName(current_class, method_name), class |-> current_class]
    ELSE IF layouts[current_class].parent = "Object"
    THEN BuiltinMethod(method_name)
    ELSE getMethodWalk(layouts[current_class].parent, method_name, layouts)

getMethod(class_name, method_name, layouts) ==
    IF class_name = "Object" /\ BuiltinMethod(method_name) # NoMethod
    THEN BuiltinMethod(method_name)
    ELSE getMethodWalk(class_name, method_name, layouts)

\* the return type of a function of the module
ReturnTypeOf(method, layouts) ==
    IF method.class = "Object"
    THEN CASE method.func[2] = "inputInt32" -> "int32"
           [] method.func[2] = "inputBool" -> "bool"
           [] method.func[2] = "inputLine" -> "string"
           [] OTHER -> "unit"
    ELSE layouts[method.class].methods[method.func[2]]

\* getField / setField: the class of the chain whose layout knows the field
RECURSIVE fieldOwner(_, _, _)
fieldOwner(class_name, field_name, layouts) ==
    IF ~Has(layouts, class_name) THEN ""
    ELSE IF Has(layouts[class_name].field_indices, field_name) THEN class_name
    ELSE IF layouts[class_name].parent # "" /\ layouts[class_name].parent # "Object"
            /\ Has(layouts, layouts[class_name].parent)
    THEN fieldOwner(layouts[class_name].parent, field_name, layouts)
    ELSE ""

\* CreateStructGEP(type, self, slot) of a load or a store was emitted
accessed(em, field_name, slot) ==
    [em EXCEPT !.accesses = Append(@, [class |-> em.current_class, field |-> field_name,
                                       slot |-> slot])]

getField(class_name, field_name, em) ==
    LET owner == fieldOwner(class_name, field_name, em.layouts) IN
    IF owner # ""
    THEN LET layout == em.layouts[owner] IN
         Emitted(Value(layout.body[layout.field_indices[field_name] + 1]),
                 accessed(em, field_name, layout.field_indices[field_name]))
    ELSE Emitted(NullValue, pushError(em, Diag("field_not_found", field_name, class_name)))

setField(class_name, field_name, v) ==
    LET owner == fieldOwner(class_name, field_name, v.em.layouts) IN
    IF owner # ""
    THEN Emitted(v.val, accessed(v.em, field_name,
                                 v.em.layouts[owner].field_indices[field_name]))
    ELSE Emitted(NullValue, pushError(v.em, Diag("field_not_found", field_name, class_name)))

RECURSIVE visit(_, _)

visitBinaryOp(node, em) ==
    LET op == node[2]
        l == visit(node[3], em)
        r == visit(node[4], l.em)
        left_val == getExprValue(Emitted(l.val, r.em))
        right_val == getExprValue(Emitted(r.val, left_val.em))
        em1 == right_val.em
    IN
    IF left_val.val = NullValue \/ right_val.val = NullValue THEN Emitted(NullValue, em1)
    ELSE IF op \in {"+", "-", "*"} THEN Emitted(left_val.val, em1)
    ELSE IF op \in {"<", "<=", "="} THEN Emitted(Value("bool"), em1)
    ELSE IF op \in {"/", "^", "and"}
    THEN \* the phi names successor 0 of the entry block's terminator, which is
         \* not a predecessor of its block; for ^ the decrement and the
         \* multiplication follow the terminator of the loop block
         Emitted(IF op = "and" THEN Value("bool") ELSE left_val.val, illFormed(em1))
    ELSE Emitted(NullValue, pushError(em1, Diag("unsupported_binary_operator", op, "")))

visitUnaryOp(node, em) ==
    LET op == node[2]
        e == getExprValue(visit(node[3], em))
    IN
    IF e.val = NullValue THEN e
    ELSE IF op \in {"-", "not"} THEN e
    ELSE IF op = "isnull" THEN Emitted(Value("bool"), e.em)
    ELSE Emitted(NullValue, pushError(e.em, Diag("unsupported_unary_operator", op, "")))

\* the class visit(const Call*) takes the receiver for
receiverClass(object, obj_val, em) ==
    LET by_form ==
            IF object[1] = "id"
            THEN IF Has(em.named_values, object[2]) THEN object[2]
                 ELSE IF findFieldType(em.current_class, object[2], em.defs).found
                 THEN findFieldType(em.current_class, object[2], em.defs).value.name
                 ELSE ""
            ELSE IF object[1] = "self" THEN em.current_class
            ELSE IF object[1] = "new" THEN object[2]
            ELSE ""
    IN IF by_form # "" THEN by_form
       ELSE IF ~IsPrimitiveName(obj_val[2]) THEN obj_val[2]
       ELSE ""

\* the loop over node->arguments; acc = [vals, em, failed]
RECURSIVE argumentsLoop(_, _, _)
argumentsLoop(args, i, acc) ==
    IF i > Len(args) \/ acc.failed THEN acc
    ELSE IF args[i] = NoExpr
    THEN [acc EXCEPT !.failed = TRUE,
                     !.em = pushError(@, Diag("null_argument", "", ""))]
    ELSE LET a == getExprValue(visit(args[i], acc.em)) IN
         IF a.val = NullValue
         THEN [acc EXCEPT !.failed = TRUE,
                          !.em = pushError(a.em, Diag("argument_value", "", ""))]
         ELSE argumentsLoop(args, i + 1,
                            [vals |-> Append(acc.vals, a.val), em |-> a.em, failed |-> FALSE])

resolved(node, callee, em) ==
    [em EXCEPT !.calls = Append(@, [class |-> em.current_class,
                                    method |-> em.current_method,
                                    call |-> node, callee |-> callee])]

visitCall(node, em) ==
    LET object == node[2]
        method_name == node[3]
        o == IF object # NoExpr THEN getExprValue(visit(object, em))
             ELSE Emitted(Value(em.current_class), em)
        class_name == IF object # NoExpr /\ o.val # NullValue
                      THEN receiverClass(object, o.val, o.em)
                      ELSE em.current_class
        method == getMethod(class_name, method_name, em.layouts)
        em1 == resolved(node, method.func, o.em)
        args == argumentsLoop(node[4], 1, [vals |-> <<>>, em |-> em1, failed |-> FALSE])
    IN
    IF o.val = NullValue THEN o
    ELSE IF method.func = NullFunction
    THEN Emitted(NullValue, pushError(em1, Diag("method_not_found", class_name, method_name)))
    ELSE IF args.failed THEN Emitted(NullValue, args.em)
    ELSE IF method.class = "Object" /\ method_name \in {"print", "printInt32", "printBool"}
    THEN Emitted(Value("int32"), args.em)
    ELSE Emitted(Value(ReturnTypeOf(method, em.layouts)), args.em)

visitNew(node, em) ==
    IF Has(em.layouts, node[2]) THEN Emitted(Value(node[2]), em)
    ELSE Emitted(NullValue, pushError(em, Diag("unknown_class", node[2], "")))

\* visit(const Let*), from the alloca to the return
lowerLet(node, em) ==
    LET name == node[2]
        var_type == getLLVMType(node[3], em)
        alloca == Alloca(name, em.allocas + 1, var_type.type)
        em0 == [var_type.em EXCEPT !.allocas = @ + 1]
        init == IF node[4] # NoExpr THEN getExprValue(visit(node[4], em0))
                ELSE Emitted(Value(node[3]), em0)
        old_value == IF Has(init.em.named_values, name) THEN init.em.named_values[name]
                     ELSE NullStorage
        em1 == [init.em EXCEPT !.named_values = Put(@, name, alloca)]
        scope == IF node[5] # NoExpr THEN getExprValue(visit(node[5], em1))
                 ELSE Emitted(Value("int32"), em1)
    IN
    IF var_type.type = NullType THEN Emitted(NullValue, crash(var_type.em))
    ELSE IF init.val = NullValue
    THEN Emitted(NullValue, pushError(init.em, Diag("let_initialization", name, "")))
    ELSE IF scope.val = NullValue
    THEN Emitted(NullValue, pushError(scope.em, Diag("let_scope", name, "")))
    ELSE Emitted(scope.val,
                 [scope.em EXCEPT !.named_values =
                     IF old_value # NullStorage THEN Put(@, name, old_value)
                     ELSE Remove(@, name)])

\* the variable map as the let found it and as it leaves it
visitLet(node, em) ==
    LET r == lowerLet(node, em) IN
    Emitted(r.val, [r.em EXCEPT !.lets = Append(@, [name |-> node[2],
                                                   before |-> em.named_values,
                                                   after |-> r.em.named_values,
                                                   failed |-> r.val = NullValue])])

visitIf(node, em) ==
    LET c == getExprValue(visit(node[2], em))
        t == getExprValue(visit(node[3], c.em))
        e == IF node[4] # NoExpr THEN getExprValue(visit(node[4], t.em))
             ELSE Emitted(Value("int32"), t.em)
    IN
    IF c.val = NullValue
    THEN Emitted(NullValue, pushError(c.em, Diag("if_condition_value", "", "")))
    ELSE IF t.val = NullValue
    THEN \* the conditional branch stays with two blocks that are never inserted
         Emitted(NullValue, illFormed(pushError(t.em, Diag("then_value", "", ""))))
    ELSE IF e.val = NullValue
    THEN Emitted(NullValue, illFormed(pushError(e.em, Diag("else_value", "", ""))))
    ELSE IF t.val = Value("unit") THEN Emitted(Value("int32"), e.em)
    ELSE \* a phi of the type of the then value
         Emitted(t.val, IF e.val = t.val THEN e.em ELSE illFormed(e.em))

visitWhile(node, em) ==
    LET c == getExprValue(visit(node[2], em))
        b == IF node[3] # NoExpr THEN visit(node[3], c.em) ELSE Emitted(NullValue, c.em)
    IN
    IF c.val = NullValue
    THEN Emitted(NullValue, pushError(c.em, Diag("while_condition_value", "", "")))
    ELSE Emitted(Value("int32"), b.em)

visitAssign(node, em) ==
    LET name == node[2]
        v == getExprValue(visit(node[3], em))
        stored == setField(em.current_class, name, v)
    IN
    IF v.val = NullValue
    THEN Emitted(NullValue, pushError(v.em, Diag("assignment_value", name, "")))
    ELSE IF Has(v.em.named_values, name) THEN v
    ELSE IF stored.val # NullValue THEN stored
    ELSE Emitted(NullValue, pushError(stored.em, Diag("could_not_assign", name, "")))

visitIdentifier(node, em) ==
    IF Has(em.named_values, node[2])
    THEN Emitted(Value(em.named_values[node[2]][3]), em)
    ELSE LET field_val == getField(em.current_class, node[2], em) IN
         IF field_val.val = NullValue
         THEN Emitted(NullValue, pushError(field_val.em, Diag("identifier_not_found", node[2], "")))
         ELSE field_val

\* the loop of visit(const Block*); acc = [result, em, failed]
RECURSIVE emitBlockLoop(_, _, _)
emitBlockLoop(es, i, acc) ==
    IF i > Len(es) \/ acc.failed THEN acc
    ELSE IF es[i] = NoExpr
    THEN emitBlockLoop(es, i + 1,
                       [acc EXCEPT !.em = pushError(@, Diag("null_expression", "", ""))])
    ELSE LET x == getExprValue(visit(es[i], acc.em)) IN
         IF x.val = NullValue
         THEN [result |-> NullValue, failed |-> TRUE,
               em |-> pushError(x.em, Diag("block_expression", "", ""))]
         ELSE emitBlockLoop(es, i + 1, [result |-> x.val, em |-> x.em, failed |-> FALSE])

visitBlock(node, em) ==
    LET b == emitBlockLoop(node[2], 1, [result |-> NullValue, em |-> em, failed |-> FALSE]) IN
    IF b.failed THEN Emitted(NullValue, b.em)
    ELSE IF b.result # NullValue THEN Emitted(b.result, b.em)
    ELSE Emitted(Value("int32"), b.em)

visit(e, em) ==
    IF em.crashed THEN Emitted(NullValue, em)
    ELSE CASE e[1] = "int" -> Emitted(Value("int32"), em)
           [] e[1] = "bool" -> Emitted(Value("bool"), em)
           [] e[1] = "string" -> Emitted(Value("string"), em)
           [] e[1] = "unit" -> Emitted(Value("int32"), em)
           [] e[1] = "self" -> Emitted(Value(em.current_class), em)
           [] e[1] = "id" -> visitIdentifier(e, em)
           [] e[1] = "new" -> visitNew(e, em)
           [] e[1] = "unop" -> visitUnaryOp(e, em)
           [] e[1] = "binop" -> visitBinaryOp(e, em)
           [] e[1] = "assign" -> visitAssign(e, em)
           [] e[1] = "if" -> visitIf(e, em)
           [] e[1] = "while" -> visitWhile(e, em)
           [] e[1] = "let" -> visitLet(e, em)
           [] e[1] = "block" -> visitBlock(e, em)
           [] e[1] = "call" -> visitCall(e, em)

(***************************************************************************)
(* CodeGenerator (Semantic_Analysis): defineMethods                        *)
(***************************************************************************)
\* first loop, the methods of one class: layout.methods[name] = func, known
\* here by its return type; acc = [layouts, errs, crashed]
RECURSIVE declareFormals(_, _, _)
declareFormals(formals, i, em) ==
    IF i > Len(formals) \/ em.crashed THEN em
    ELSE LET t == getLLVMType(formals[i].type, em) IN
         declareFormals(formals, i + 1, IF t.type = NullType THEN crash(t.em) ELSE t.em)

RECURSIVE declareMethodsOf(_, _, _)
declareMethodsOf(cls, i, em) ==
    IF i > Len(cls.methods) \/ em.crashed THEN em
    ELSE LET method == cls.methods[i]
             em0 == declareFormals(method.formals, 1, em)
             return_type == getLLVMType(method.return_type, em0)
         IN IF em0.crashed THEN em0
            ELSE IF return_type.type = NullType THEN crash(return_type.em)
            ELSE declareMethodsOf(cls, i + 1,
                    [return_type.em EXCEPT
                        !.layouts[cls.name].methods = Put(@, method.name, method.return_type)])

RECURSIVE declareMethods(_, _, _)
declareMethods(prog, i, em) ==
    IF i > Len(prog) \/ em.crashed THEN em
    ELSE IF ~Has(em.layouts, prog[i].name) THEN crash(em)
    ELSE declareMethods(prog, i + 1, declareMethodsOf(prog[i], 1, em))

\* second loop, the allocas of the formals
RECURSIVE formalAllocas(_, _, _)
formalAllocas(formals, i, em) ==
    IF i > Len(formals) THEN em
    ELSE formalAllocas(formals, i + 1,
            [em EXCEPT !.allocas = @ + 1,
                       !.named_values = Put(@, formals[i].name,
                                            Alloca(formals[i].name, em.allocas + 1,
                                                   formals[i].type))])

\* an emitted function: its name and what it returns
Function(name, body) == [name |-> name, body |-> body]

\* second loop, one method: the function and the emitter it leaves
defineMethod(cls, method, em) ==
    LET em0 == formalAllocas(method.formals, 1,
                             [em EXCEPT !.current_class = cls.name,
                                        !.current_method = method.name,
                                        !.named_values = EmptyMap,
                                        !.allocas = 1])
    IN
    Sequenced(IF method.body = NoExpr THEN Emitted(NullValue, em0)
              ELSE getExprValue(visit(method.body, em0)),
              LAMBDA ret_val :
                LET em1 == ret_val.em
                    returned == IF method.return_type = "unit" THEN Value("unit")
                                ELSE IF method.body = NoExpr THEN Value(method.return_type)
                                ELSE ret_val.val
                IN [function |-> Function(FunctionName(cls.name, method.name),
                                          <<<<"ret", returned>>>>),
                    em |-> IF returned = Value(method.return_type) \/ em1.crashed THEN em1
                           ELSE illFormed(em1)])

\* second loop, the methods of one class; acc = [functions, em]
RECURSIVE defineMethodsOf(_, _, _)
defineMethodsOf(cls, i, acc) ==
    IF i > Len(cls.methods) \/ acc.em.crashed THEN acc
    ELSE Sequenced(defineMethod(cls, cls.methods[i], acc.em),
                   LAMBDA m :
                     defineMethodsOf(cls, i + 1,
                                     [functions |-> IF m.em.crashed THEN acc.functions
                                                    ELSE Append(acc.functions, m.function),
                                      em |-> m.em]))

\* the function "main" that ends defineMethods
EntryName == FunctionName("", "main")

Constructor(class_name) == FunctionName(class_name, "new")

entryPoint(em) ==
    IF Has(em.layouts, "Main")
    THEN IF Has(em.layouts["Main"].methods, "main")
         THEN [function |-> Function(EntryName,
                    << <<"call", Constructor("Main")>>,
                       <<"call", FunctionName("Main", "main"),
                         <<"result", Constructor("Main")>>>>,
                       IF em.layouts["Main"].methods["main"] = "unit"
                       THEN <<"ret", <<"const", "0">>>>
                       ELSE <<"ret", <<"result", FunctionName("Main", "main")>>>> >>),
               em |-> em]
         ELSE [function |-> Function(EntryName, << <<"ret", <<"const", "1">>>> >>),
               em |-> pushError(em, Diag("main_method_missing", "", ""))]
    ELSE [function |-> Function(EntryName, << <<"ret", <<"const", "1">>>> >>),
          em |-> pushError(em, Diag("main_class_missing", "", ""))]

(***************************************************************************)
(* CodeGenerator (Code_Generation): generateExpression and the generators  *)
(* it dispatches to.  The emitter is SSA: an llvm::Value is the term that  *)
(* computes it (a constant, an argument of the function, an instruction    *)
(* over values), and current_vars maps a name to a value.  A generator     *)
(* takes the emitter                                                       *)
(*   cg = [defs, methods, current_class, current_method, current_vars,     *)
(*         errs, ill_formed, lets, calls]                                  *)
(* and yields the value it returns with the emitter it leaves.             *)
(***************************************************************************)
Generated(val, cg) == [val |-> val, cg |-> cg]

\* the value of a literal node: the parser's value, 0 / false when the node
\* carries none
LiteralValue(e) == IF Len(e) > 1 THEN e[2] ELSE IF e[1] = "int" THEN "0" ELSE "false"

Constant(v) == <<"const", v>>

Argument(name) == <<"arg", name>>

\* CodeGenerator::reportError (Code_Generation): no duplicates
cgError(cg, d) == [cg EXCEPT !.errs = reportError(@, d)]

\* class_types: Object and the classes of the class table
ClassTypes(defs) == {c \in DOMAIN defs : ~IsPrimitiveName(c)} \cup {"Object"}

RECURSIVE generateExpression(_, _)

generateBinaryOp(binop, cg) ==
    LET left == generateExpression(binop[3], cg)
        right == generateExpression(binop[4], left.cg)
    IN
    IF left.val = NullValue \/ right.val = NullValue THEN Generated(NullValue, right.cg)
    ELSE IF binop[2] \in {"+", "-", "*", "/", "^", "=", "<", "<=", "and"}
    THEN Generated(<<"binop", binop[2], left.val, right.val>>, right.cg)
    ELSE Generated(NullValue, cgError(right.cg, Diag("unknown_binary_operator", binop[2], "")))

generateUnaryOp(unop, cg) ==
    LET operand == generateExpression(unop[3], cg) IN
    IF operand.val = NullValue THEN operand
    ELSE IF unop[2] \in {"-", "not", "isnull"}
    THEN Generated(<<"unop", unop[2], operand.val>>, operand.cg)
    ELSE Generated(NullValue, cgError(operand.cg, Diag("unknown_unary_operator", unop[2], "")))

\* the loop over call->arguments; acc = [args, cg, failed]
RECURSIVE generateArguments(_, _, _)
generateArguments(arguments, i, acc) ==
    IF i > Len(arguments) \/ acc.failed THEN acc
    ELSE LET arg_val == generateExpression(arguments[i], acc.cg) IN
         IF arg_val.val = NullValue
         THEN [acc EXCEPT !.failed = TRUE, !.cg = arg_val.cg]
         ELSE generateArguments(arguments, i + 1,
                                [args |-> Append(acc.args, arg_val.val),
                                 cg |-> arg_val.cg, failed |-> FALSE])

generateCall(call, cg) ==
    LET method_name == call[3]
        object == IF call[2] # NoExpr THEN generateExpression(call[2], cg)
                  ELSE Generated(Argument("self"), cg)
        object_class_name ==
            IF call[2] = NoExpr \/ call[2][1] = "self" THEN cg.current_class
            ELSE IF call[2][1] = "new" THEN call[2][2]
            ELSE "Object"
        method_sig_opt == findMethodSignature(object_class_name, method_name, cg.defs)
        builtin == method_name \in {"print", "printInt32", "inputInt32", "inputString"}
        method_func ==
            LET f == FunctionName(IF method_sig_opt.found THEN object_class_name ELSE "Object",
                                  method_name)
            IN IF (method_sig_opt.found \/ builtin) /\ f \in cg.methods THEN f
               ELSE NullFunction
        cg1 == [object.cg EXCEPT !.calls = Append(@, [class |-> cg.current_class,
                                                      method |-> cg.current_method,
                                                      call |-> call,
                                                      callee |-> method_func])]
        args == generateArguments(call[4], 1, [args |-> <<object.val>>, cg |-> cg1,
                                               failed |-> FALSE])
    IN
    IF call[2] # NoExpr /\ object.val = NullValue THEN object
    ELSE IF call[2] = NoExpr /\ cg.current_class = ""
    THEN Generated(NullValue, cgError(cg, Diag("call_outside_class", method_name, "")))
    ELSE IF ~method_sig_opt.found /\ ~builtin
    THEN Generated(NullValue,
                   cgError(cg1, Diag("method_not_found", method_name, object_class_name)))
    ELSE IF method_func = NullFunction
    THEN Generated(NullValue,
                   cgError(cg1, IF method_sig_opt.found
                                THEN Diag("method_function_not_found",
                                          object_class_name, method_name)
                                ELSE Diag("builtin_method_not_found", "Object", method_name)))
    ELSE IF method_sig_opt.found
            /\ Len(call[4]) # Len(method_sig_opt.value.parameters)
    THEN Generated(NullValue, cgError(cg1, Diag("argument_count", method_name, "")))
    ELSE IF args.failed THEN Generated(NullValue, args.cg)
    ELSE Generated(<<"call", method_func, args.args>>, args.cg)

\* the constructor generateNew creates when the module has none: a null
\* dispatch pointer, the fields of the class type as malloc left them
simpleConstructor(type_name, cg) ==
    <<<<"null">>>> \o [i \in 1..(IF Has(cg.defs, type_name)
                                  THEN Cardinality(DOMAIN cg.defs[type_name].fields)
                                  ELSE 0) |-> <<cg.heap>>]

generateNew(newExpr, cg) ==
    IF newExpr[2] \notin ClassTypes(cg.defs)
    THEN Generated(NullValue, cgError(cg, Diag("unknown_class_type", newExpr[2], "")))
    ELSE Generated(<<"call", FunctionName(newExpr[2], "_new"), <<>>>>,
                   IF Has(cg.constructors, newExpr[2]) THEN cg
                   ELSE [cg EXCEPT !.constructors =
                            Put(@, newExpr[2], simpleConstructor(newExpr[2], cg))])

\* generateLet, from the initializer to the return
lowerLetSSA(letExpr, cg) ==
    LET name == letExpr[2]
        init_val == IF letExpr[4] # NoExpr THEN generateExpression(letExpr[4], cg)
                    ELSE Generated(CASE letExpr[3] = "int32" -> Constant("0")
                                     [] letExpr[3] = "bool" -> Constant("false")
                                     [] letExpr[3] = "string" -> Constant("")
                                     [] OTHER -> Constant("null"), cg)
        scope_val == generateExpression(letExpr[5],
                        [init_val.cg EXCEPT !.current_vars = Put(@, name, init_val.val)])
    IN
    IF init_val.val = NullValue THEN init_val
    ELSE Generated(scope_val.val,
                   [scope_val.cg EXCEPT !.current_vars = Remove(@, name)])

\* the variable map as the let found it and as it leaves it
generateLet(letExpr, cg) ==
    LET r == lowerLetSSA(letExpr, cg) IN
    Generated(r.val, [r.cg EXCEPT !.lets = Append(@, [name |-> letExpr[2],
                                                     before |-> cg.current_vars,
                                                     after |-> r.cg.current_vars,
                                                     failed |-> r.val = NullValue])])

generateIf(ifExpr, cg) ==
    LET condition == generateExpression(ifExpr[2], cg)
        then_val == generateExpression(ifExpr[3], condition.cg)
        else_val == generateExpression(ifExpr[4], then_val.cg)
    IN
    IF condition.val = NullValue THEN condition
    ELSE IF then_val.val = NullValue
    THEN \* the then block is left open, the other blocks are never inserted
         Generated(NullValue, [then_val.cg EXCEPT !.ill_formed = TRUE])
    ELSE IF ifExpr[4] = NoExpr THEN Generated(NullValue, then_val.cg)
    ELSE IF else_val.val = NullValue
    THEN Generated(NullValue, [else_val.cg EXCEPT !.ill_formed = TRUE])
    ELSE Generated(<<"phi", condition.val, then_val.val, else_val.val>>, else_val.cg)

generateWhile(whileExpr, cg) ==
    LET cond_val == generateExpression(whileExpr[2], cg)
        body_val == generateExpression(whileExpr[3], cond_val.cg)
    IN
    IF cond_val.val = NullValue THEN cond_val
    ELSE IF body_val.val = NullValue /\ whileExpr[3] # <<"unit">>
    THEN \* the body block is left open and the end block is never inserted
         Generated(NullValue,
                   [cgError(body_val.cg, Diag("while_body", "", ""))
                        EXCEPT !.ill_formed = TRUE])
    ELSE Generated(NullValue, body_val.cg)

generateAssign(assign, cg) ==
    LET value == generateExpression(assign[3], cg) IN
    IF value.val = NullValue THEN value
    ELSE IF Has(value.cg.current_vars, assign[2])
    THEN Generated(value.val,
                   [value.cg EXCEPT !.current_vars = Put(@, assign[2], value.val)])
    ELSE IF cg.current_class # "" /\ findFieldType(cg.current_class, assign[2], cg.defs).found
    THEN Generated(value.val, accessed(value.cg, assign[2], 1))
    ELSE Generated(NullValue, cgError(value.cg, Diag("undefined_assignment", assign[2], "")))

generateIdentifier(id, cg) ==
    IF Has(cg.current_vars, id[2]) THEN Generated(cg.current_vars[id[2]], cg)
    ELSE IF cg.current_class # "" /\ findFieldType(cg.current_class, id[2], cg.defs).found
    THEN Generated(<<"field", id[2]>>, accessed(cg, id[2], 1))
    ELSE Generated(NullValue, cgError(cg, Diag("undefined_identifier", id[2], "")))

generateSelf(self, cg) ==
    IF cg.current_class = ""
    THEN Generated(NullValue, cgError(cg, Diag("self_outside_class", "", "")))
    ELSE Generated(Argument("self"), cg)

\* the loop of generateBlock; acc = [result, cg, failed]
RECURSIVE generateBlockLoop(_, _, _)
generateBlockLoop(expressions, i, acc) ==
    IF i > Len(expressions) \/ acc.failed THEN acc
    ELSE LET result == generateExpression(expressions[i], acc.cg) IN
         IF result.val = NullValue /\ i # Len(expressions)
         THEN [result |-> NullValue, failed |-> TRUE,
               cg |-> cgError(result.cg, Diag("block_expression", "", ""))]
         ELSE generateBlockLoop(expressions, i + 1,
                                [result |-> result.val, cg |-> result.cg, failed |-> FALSE])

generateBlock(block, cg) ==
    IF block[2] = <<>> THEN Generated(NullValue, cg)
    ELSE LET b == generateBlockLoop(block[2], 1,
                                    [result |-> NullValue, cg |-> cg, failed |-> FALSE])
         IN Generated(b.result, b.cg)

generateExpression(expr, cg) ==
    IF expr = NoExpr THEN Generated(NullValue, cgError(cg, Diag("null_expression", "", "")))
    ELSE CASE expr[1] = "binop" -> generateBinaryOp(expr, cg)
           [] expr[1] = "unop" -> generateUnaryOp(expr, cg)
           [] expr[1] = "call" -> generateCall(expr, cg)
           [] expr[1] = "new" -> generateNew(expr, cg)
           [] expr[1] = "let" -> generateLet(expr, cg)
           [] expr[1] = "if" -> generateIf(expr, cg)
           [] expr[1] = "while" -> generateWhile(expr, cg)
           [] expr[1] = "assign" -> generateAssign(expr, cg)
           [] expr[1] = "block" -> generateBlock(expr, cg)
           [] expr[1] \in {"int", "bool"} -> Generated(Constant(LiteralValue(expr)), cg)
           [] expr[1] = "string" -> Generated(Constant(""), cg)
           [] expr[1] = "unit" -> Generated(NullValue, cg)
           [] expr[1] = "id" -> generateIdentifier(expr, cg)
           [] expr[1] = "self" -> generateSelf(expr, cg)

(***************************************************************************)
(* CodeGenerator (Code_Generation): generateMethodBodies and               *)
(* generateMainEntryPoint                                                  *)
(***************************************************************************)
\* current_vars at the body: self and the formals are the arguments
RECURSIVE formalArguments(_, _, _)
formalArguments(formals, i, current_vars) ==
    IF i > Len(formals) THEN current_vars
    ELSE formalArguments(formals, i + 1,
                         Put(current_vars, formals[i].name, Argument(formals[i].name)))

\* ast_methods[method->name] = method.get(): the last method of that name
RECURSIVE astMethod(_, _, _, _)
astMethod(ms, i, method_name, found) ==
    IF i > Len(ms) THEN found
    ELSE astMethod(ms, i + 1, method_name,
                   IF ms[i].name = method_name THEN <<ms[i]>> ELSE found)

\* the body of the loop over class_def.methods for one method;
\* acc = [functions, cg]
generateMethodBody(cls, method_name, acc) ==
    LET func_name == FunctionName(cls.name, method_name)
        ast == astMethod(cls.methods, 1, method_name, <<>>)
        method == ast[1]
        cg0 == [acc.cg EXCEPT !.current_class = cls.name,
                              !.current_method = method_name,
                              !.current_vars =
                                  formalArguments(method.formals, 1,
                                                  Put(EmptyMap, "self", Argument("self")))]
    IN
    IF func_name \notin acc.cg.methods
    THEN [acc EXCEPT !.cg = cgError(@, Diag("function_not_found", cls.name, method_name))]
    ELSE IF ast = <<>> THEN acc
    ELSE Sequenced(IF method.body # NoExpr THEN generateExpression(method.body, cg0)
                   ELSE Generated(NullValue, cg0),
                   LAMBDA body_val :
                     LET returned == IF method.return_type = "unit" THEN Value("unit")
                                     ELSE IF body_val.val # NullValue THEN body_val.val
                                     ELSE Constant("null")
                     IN [functions |-> Append(acc.functions,
                                              Function(func_name, <<<<"ret", returned>>>>)),
                         cg |-> body_val.cg])

RECURSIVE generateMethodBodiesOf(_, _, _, _)
generateMethodBodiesOf(cls, order, i, acc) ==
    IF i > Len(order) THEN acc
    ELSE Sequenced(generateMethodBody(cls, order[i], acc),
                   LAMBDA acc1 : generateMethodBodiesOf(cls, order, i + 1, acc1))

\* generateMethodBodies, body of the loop over program->classes
generateClassBodies(cls, order, acc) ==
    IF IsPrimitiveName(cls.name) THEN acc
    ELSE IF ~Has(acc.cg.defs, cls.name)
    THEN [acc EXCEPT !.cg = cgError(@, Diag("class_definition_not_found", cls.name, ""))]
    ELSE generateMethodBodiesOf(cls, order, 1, acc)

\* generateMainEntryPoint: the function "main", or a diagnostic
mainEntryPoint(cg) ==
    LET main_ctor == IF FunctionName("Main", "_new") \in cg.methods
                     THEN FunctionName("Main", "_new")
                     ELSE IF FunctionName("Object", "_new") \in cg.methods
                     THEN FunctionName("Object", "_new")
                     ELSE FunctionName("", "malloc")
    IN
    IF "Main" \notin ClassTypes(cg.defs)
    THEN [functions |-> <<>>, cg |-> cgError(cg, Diag("main_class_missing", "", ""))]
    ELSE IF FunctionName("Main", "main") \notin cg.methods
    THEN [functions |-> <<>>, cg |-> cgError(cg, Diag("main_method_missing", "", ""))]
    ELSE [functions |-> <<Function(EntryName,
                            << <<"call", main_ctor>>,
                               <<"call", FunctionName("Main", "main"),
                                 <<"result", main_ctor>>>>,
                               <<"ret", <<"result", FunctionName("Main", "main")>>>> >>)>>,
          \* an instance made by the constructor of Object is not of the
          \* type of the self of Main__main
          cg |-> IF main_ctor = FunctionName("Object", "_new")
                 THEN [cg EXCEPT !.ill_formed = TRUE] ELSE cg]

(***************************************************************************)
(* The programs explored: families of class lists.                         *)
(***************************************************************************)
Class(n, p, fs, ms) == [name |-> n, parent |-> p, fields |-> fs, methods |-> ms]

Field(n, t, init) == [name |-> n, type |-> t, init_expr |-> init]

Formal(n, t) == [name |-> n, type |-> t]

\* the body of a method is a Block
Method(n, formals, r, es) ==
    [name |-> n, formals |-> formals, return_type |-> r, body |-> <<"block", es>>]

\* hierarchies: classes without members, any parent, redefinitions included
HierarchyDecls ==
    {Class(n, p, <<>>, <<>>) : n \in {"A", "B", "Main"}, p \in {"", "A", "B", "int32"}}
    \cup {Class("int32", "", <<>>, <<>>), Class("Object", "", <<>>, <<>>)}

\* members: classes Main, B below A with fields and methods that collide
FooString == Method("foo", <<Formal("n", "string")>>, "bool", <<<<"bool">>>>)
FooInt32 == Method("foo", <<Formal("n", "int32")>>, "bool", <<<<"bool">>>>)
MainMethod == Method("main", <<>>, "int32", <<<<"int">>>>)

MemberDecls ==
    { Class("A", "", <<Field("x", "int32", NoExpr)>>, <<FooString>>),
      Class("A", "", <<Field("y", "bool", NoExpr)>>, <<>>),
      Class("B", "A", <<Field("x", "int32", NoExpr)>>, <<>>),
      Class("B", "A", <<Field("y", "bool", NoExpr)>>, <<FooInt32>>),
      Class("B", "A", <<>>, <<FooString>>),
      Class("Main", "B", <<Field("x", "int32", NoExpr)>>, <<MainMethod>>),
      Class("Main", "A", <<Field("z", "int32", <<"int">>)>>, <<MainMethod, FooInt32>>),
      Class("Main", "", <<Field("x", "int32", NoExpr), Field("x", "bool", NoExpr),
                          Field("z", "Nope", NoExpr)>>,
            <<MainMethod, MainMethod,
              Method("bar", <<Formal("n", "int32"), Formal("n", "Nope"), Formal("self", "bool")>>,
                     "Nope", <<>>)>>) }

\* expressions: a class Main with a method m whose body holds one of these
Atoms == {<<"int">>, <<"bool">>, <<"string">>, <<"unit">>, <<"self">>,
          <<"new", "A">>, <<"new", "Main">>, <<"new", "Nope">>, <<"id", "f">>, <<"id", "g">>}

Branches == {<<"int">>, <<"bool">>, <<"unit">>, <<"new", "A">>, <<"new", "Main">>, <<"id", "g">>}

Bodies ==
    Atoms
    \cup {<<"if", c, t, e>> : c \in {<<"bool">>, <<"int">>}, t \in Branches,
                              e \in Branches \cup {NoExpr}}
    \cup {<<"while", c, <<"int">>>> : c \in {<<"bool">>, <<"int">>, <<"id", "g">>}}
    \cup {<<"unop", op, a>> : op \in {"not", "-", "isnull"},
                              a \in {<<"int">>, <<"bool">>, <<"self">>}}
    \cup {<<"binop", op, a, b>> : op \in {"and", "=", "<", "+"},
                                  a \in {<<"int">>, <<"unit">>, <<"self">>},
                                  b \in {<<"int">>, <<"bool">>, <<"self">>}}
    \cup {<<"let", "v", t, i, b>> : t \in {"int32", "Object", "Nope"},
                                    i \in {NoExpr, <<"int">>, <<"new", "A">>},
                                    b \in {<<"id", "v">>, <<"assign", "v", <<"bool">>>>}}
    \cup {<<"assign", n, <<"int">>>> : n \in {"f", "g", "self"}}
    \cup {<<"block", es>> : es \in {<<>>, <<<<"id", "g">>, <<"int">>>>,
                                    <<<<"int">>, <<"if", <<"bool">>, <<"int">>, <<"bool">>>>>>}}

ExpressionPrograms ==
    { << Class("A", "", <<>>, <<>>),
         Class("Main", "A", <<Field("f", "int32", NoExpr)>>,
               <<MainMethod, Method("m", <<>>, r, <<body>>)>>) >> :
        r \in {"int32", "Object"}, body \in Bodies }

\* entry points: main declared by Main, by its parent, by both or by neither
EntryMethods ==
    {Method("main", formals, r, <<<<"int">>>>) :
        formals \in {<<>>, <<Formal("n", "int32")>>}, r \in {"int32", "bool"}}

EntryPrograms ==
    LET members == {<<>>} \cup {<<m>> : m \in EntryMethods} IN
    { <<Class("A", "", <<>>, am), Class("Main", "A", <<>>, mm)>> :
          am \in members, mm \in members }
    \cup { <<Class("A", "", <<>>, am)>> : am \in members }

\* emission: A declares foo, B below A inherits it, Main below B has a field
\* fb, a method mk and a method m(a, x, c) whose body is one of EmitterBodies
FooOfA == Method("foo", <<>>, "int32", <<<<"int">>>>)

MakeB == Method("mk", <<>>, "B", <<<<"new", "B">>>>)

CallFoo(receiver) == <<"call", receiver, "foo", <<>>>>

Receivers ==
    {NoExpr, <<"self">>, <<"new", "B">>, <<"new", "A">>, <<"id", "a">>, <<"id", "fb">>,
     <<"id", "x">>, <<"call", <<"self">>, "mk", <<>>>>}

\* bodies that assign to a local variable y or to the parameter x and read it
LetY(init, es) == <<"let", "y", "int32", init, <<"block", es>>>>

Increment(n) == <<"assign", n, <<"binop", "+", <<"id", n>>, <<"int", "1">>>>>>

LocalBodies ==
    { <<LetY(<<"int", "5">>, <<Increment("y"), <<"id", "y">>>>)>>,
      <<LetY(<<"int", "5">>, << <<"if", <<"id", "c">>, <<"assign", "y", <<"int", "1">>>>,
                                  <<"int", "0">>>>,
                               <<"id", "y">> >>)>>,
      <<LetY(<<"int", "5">>, << <<"if", <<"id", "c">>, <<"assign", "y", <<"int", "1">>>>,
                                  <<"assign", "y", <<"int", "2">>>>>>,
                               <<"id", "y">> >>)>>,
      <<Increment("x"), <<"id", "x">>>> }

EmitterBodies ==
    {<<CallFoo(r)>> : r \in Receivers}
    \cup LocalBodies
    \cup {<<<<"let", "b", "B", <<"new", "B">>, CallFoo(<<"id", "b">>)>>>>,
          <<<<"let", "x", "B", <<"new", "B">>, CallFoo(<<"id", "x">>)>>, <<"id", "x">>>>,
          <<<<"let", "x", "int32", <<"int">>, <<"id", "x">>>>, <<"id", "x">>>>,
          <<<<"let", "v", "int32", NoExpr,
              <<"let", "v", "int32", <<"id", "v">>, <<"id", "v">>>>>>>>}

EmitterPrograms ==
    { << Class("A", "", <<>>, <<FooOfA>>),
         Class("B", "A", <<>>, <<>>),
         Class("Main", "B", <<Field("fb", "B", NoExpr)>>,
               <<MainMethod, MakeB,
                 Method("m", <<Formal("a", "B"), Formal("x", "int32"), Formal("c", "bool")>>,
                        r, IF r = "unit" THEN es \o <<<<"unit">>>> ELSE es)>>) >> :
        r \in {"int32", "unit"}, es \in EmitterBodies }

\* fields: Main below A reads and writes its own fields f, g and the field
\* fa it inherits, in a method m; the two classes in either order
FieldBodies ==
    { << <<"id", "f">>, <<"id", "g">> >>,
      << <<"assign", "f", <<"int", "1">>>>, <<"id", "fa">> >>,
      << <<"assign", "g", <<"id", "fa">>>>, <<"assign", "fa", <<"id", "f">>>> >>,
      << <<"id", "fa">> >> }

FieldPrograms ==
    UNION {LET a == Class("A", "", <<Field("fa", "int32", NoExpr)>>, <<>>)
               main == Class("Main", "A", <<Field("f", "int32", NoExpr),
                                             Field("g", "int32", NoExpr)>>,
                             <<MainMethod, Method("m", <<>>, "int32", es)>>)
           IN {<<a, main>>, <<main, a>>} : es \in FieldBodies}

\* overriding: A declares foo and bar, B below A overrides foo and adds baz,
\* Main below B overrides bar and adds main
Int32Method(n) == Method(n, <<>>, "int32", <<<<"int">>>>)

OverridePrograms ==
    LET a == Class("A", "", <<>>, <<Int32Method("foo"), Int32Method("bar")>>)
        b == Class("B", "A", <<>>, <<Int32Method("foo"), Int32Method("baz")>>)
        main == Class("Main", "B", <<>>, <<MainMethod, Int32Method("bar")>>)
    IN {<<a, b, main>>, <<main, b, a>>}

\* unit: Main has a method m(c : bool) whose body holds a unit-typed
\* expression inside a block or an if, or is one
UnitExpressions ==
    { <<"unit">>,
      <<"while", <<"id", "c">>, <<"unit">>>>,
      <<"if", <<"id", "c">>, <<"int">>, NoExpr>>,
      <<"block", <<>>>> }

UnitBodies ==
    {[r |-> "int32", es |-> <<u, <<"int">>>>] : u \in UnitExpressions}
    \cup {[r |-> "int32", es |-> << <<"if", <<"id", "c">>, u, u>>, <<"int">> >>] :
              u \in UnitExpressions}
    \cup {[r |-> "unit", es |-> <<u>>] : u \in UnitExpressions}

UnitPrograms ==
    { << Class("Main", "", <<>>,
               <<MainMethod, Method("m", <<Formal("c", "bool")>>, b.r, b.es)>>) >> :
        b \in UnitBodies }

\* calls: A declares foo(n : int32) and bar(o : Object, a : A), B below A
\* inherits them, Main below B calls one of them in a method m
CallArguments == {<<"int">>, <<"string">>, <<"new", "A">>, <<"new", "B">>}

ArgumentLists ==
    {<<>>} \cup {<<a>> : a \in CallArguments}
    \cup {<<a, b>> : a \in CallArguments, b \in CallArguments}

CallPrograms ==
    { << Class("A", "", <<>>,
               <<Method("foo", <<Formal("n", "int32")>>, "bool", <<<<"bool">>>>),
                 Method("bar", <<Formal("o", "Object"), Formal("a", "A")>>, "int32",
                        <<<<"int">>>>)>>),
         Class("B", "A", <<>>, <<>>),
         Class("Main", "B", <<>>,
               <<MainMethod,
                 Method("m", <<>>, "Object", <<<<"call", receiver, name, args>>>>)>>) >> :
        receiver \in {NoExpr, <<"new", "B">>, <<"new", "A">>, <<"new", "Object">>},
        name \in {"foo", "bar", "quux"},
        args \in ArgumentLists }

\* built-in methods: Main has a method m(o : Object) whose body calls one of
\* the methods initObjectMethods registers on Object, with arguments of the
\* declared types, on itself, on a new Main or on o
BuiltinCalls ==
    { [name |-> "print", args |-> <<<<"string">>>>, type |-> "Object"],
      [name |-> "printInt32", args |-> <<<<"int">>>>, type |-> "Object"],
      [name |-> "printBool", args |-> <<<<"bool">>>>, type |-> "Object"],
      [name |-> "inputInt32", args |-> <<>>, type |-> "int32"],
      [name |-> "inputString", args |-> <<>>, type |-> "string"],
      [name |-> "inputBool", args |-> <<>>, type |-> "bool"],
      [name |-> "inputLine", args |-> <<>>, type |-> "string"] }

BuiltinPrograms ==
    { << Class("Main", "", <<>>,
               <<MainMethod,
                 Method("m", <<Formal("o", "Object")>>, b.type,
                        <<<<"call", receiver, b.name, b.args>>>>)>>) >> :
        b \in BuiltinCalls,
        receiver \in {NoExpr, <<"self">>, <<"new", "Main">>, <<"id", "o">>} }

ClassLists(decls) == UNION {[1..n -> decls] : n \in 1..MaxClasses}

Programs ==
    ClassLists(HierarchyDecls) \cup ClassLists(MemberDecls) \cup ExpressionPrograms
    \cup EntryPrograms \cup EmitterPrograms \cup FieldPrograms \cup OverridePrograms
    \cup UnitPrograms \cup CallPrograms \cup BuiltinPrograms

(***************************************************************************)
(* The driver: Driver::generate_ir -> Driver::check -> TypeChecker::check  *)
(* -> SemanticAnalyzer::analyze, then CodeGenerator::generate.             *)
(***************************************************************************)
Passes == {"build", "validate", "collect", "main", "typecheck", "declare", "define"}

\* TypeChecker::check on the result of analyze (errors.empty()): a failed
\* analysis ends the check
analysisGate(errs, next) == IF errs # <<>> THEN "failed" ELSE next

\* Driver::generate_ir: code generation only after a successful check
checkGate(errs, next) == IF errs # <<>> THEN "failed" ELSE next

UserClasses(defs) == (DOMAIN defs) \ {"Object"}

\* integers of IntWidth bits, and a run of the code emitted for base ^ exp
Modulus == 2 ^ IntWidth

Ints == (0 - 2 ^ (IntWidth - 1)) .. (2 ^ (IntWidth - 1) - 1)

\* the value of an add or a mul of the width
Wrap(n) == ((n + 2 ^ (IntWidth - 1)) % Modulus) - 2 ^ (IntWidth - 1)

PowIdle ==
    [emitter |-> "", block |-> "idle", base |-> 0, exp |-> 0, result |-> 0, count |-> 0,
     current_result |-> 0, current_count |-> 0, value |-> 0]

PowCall(emitter, base, exp) ==
    [PowIdle EXCEPT !.emitter = emitter, !.base = base, !.exp = exp,
                    !.block = IF emitter = "Code_Generation" THEN "entry" ELSE "powtest"]

\* the compiler before Driver::generate_ir is called
Constructed ==
    /\ pc = "analyze"
    /\ errors = <<>>
    /\ class_table = EmptyMap
    /\ class_definitions = initObjectMethods
    /\ pending = {}
    /\ started = {}
    /\ tc_errors = <<>>
    /\ scope_visits = <<>>
    /\ typed_error = [any |-> FALSE, silent |-> FALSE]
    /\ class_layouts = EmptyMap
    /\ next_class = 1
    /\ methods = {}
    /\ class_vtable_methods = EmptyMap
    /\ class_method_implementations = EmptyMap
    /\ vtable_globals = EmptyMap
    /\ cg_errors = <<>>
    /\ functions = <<>>
    /\ ill_formed = FALSE
    /\ lets = <<>>
    /\ calls = <<>>
    /\ accesses = <<>>
    /\ constructors = EmptyMap
    /\ expr_types = <<>>

Init ==
    /\ program \in Programs
    /\ Constructed
    /\ pow = PowIdle

\* analyze goes on to the pass `to`, or returns false and the check fails
AnalyzerGoes(to) ==
    /\ pc' = to
    /\ started' = IF to \in Passes THEN started \cup {to} ELSE started
    /\ tc_errors' = IF to = "failed" THEN tc_errors \o errors' ELSE tc_errors

BuildClassDefinitions ==
    /\ pc = "analyze"
    /\ LET b == buildClassDefinitions(program, <<>>, initObjectMethods)
           to == gate(b.errs, "validate")
       IN /\ errors' = b.errs
          /\ class_table' = b.table
          /\ class_definitions' = b.defs
          /\ pending' = IF to = "validate" THEN UserClasses(b.defs) ELSE {}
          /\ pc' = to
          /\ started' = started \cup {"build"} \cup ({to} \cap Passes)
          /\ tc_errors' = IF to = "failed" THEN tc_errors \o b.errs ELSE tc_errors
    /\ UNCHANGED cg_vars
    /\ UNCHANGED em_vars
    /\ UNCHANGED <<constructors, typed_error, expr_types, pow>>
    /\ UNCHANGED <<program, class_layouts, next_class, scope_visits>>

ValidateInheritanceHierarchy ==
    /\ pc = "validate"
    /\ \E name \in pending :
         /\ errors' = validateClass(name, class_definitions, errors)
         /\ IF pending = {name}
            THEN LET to == gate(errors', "collect") IN
                 /\ pending' = IF to = "collect" THEN DOMAIN class_table ELSE {}
                 /\ AnalyzerGoes(to)
            ELSE /\ pending' = pending \ {name}
                 /\ UNCHANGED <<pc, started, tc_errors>>
    /\ UNCHANGED cg_vars
    /\ UNCHANGED em_vars
    /\ UNCHANGED <<constructors, typed_error, expr_types, pow>>
    /\ UNCHANGED <<program, class_table, class_definitions, class_layouts, next_class,
                   scope_visits>>

CollectMethodsAndFields ==
    /\ pc = "collect"
    /\ \E name \in pending :
         \E c \in {collectClass(name, program[class_table[name]], class_definitions, errors)} :
         /\ errors' = c.errs
         /\ class_definitions' = c.defs
         /\ pending' = pending \ {name}
         /\ IF pending = {name}
            THEN AnalyzerGoes(gate(errors', "main"))
            ELSE UNCHANGED <<pc, started, tc_errors>>
    /\ UNCHANGED cg_vars
    /\ UNCHANGED em_vars
    /\ UNCHANGED <<constructors, typed_error, expr_types, pow>>
    /\ UNCHANGED <<program, class_table, class_layouts, next_class, scope_visits>>

CheckMain ==
    /\ pc = "main"
    /\ errors' = checkMain(class_definitions, errors)
    /\ AnalyzerGoes(analysisGate(errors', "typecheck"))
    /\ UNCHANGED cg_vars
    /\ UNCHANGED em_vars
    /\ UNCHANGED <<constructors, typed_error, expr_types, pow>>
    /\ UNCHANGED <<program, class_table, class_definitions, pending, class_layouts, next_class,
                   scope_visits>>

TypeCheck ==
    /\ pc = "typecheck"
    /\ next_class <= Len(program)
    /\ \E st \in {checkClass(program[next_class], tc_errors, scope_visits, typed_error,
                             expr_types, class_definitions)} :
          /\ tc_errors' = st.errs
          /\ scope_visits' = st.visits
          /\ typed_error' = st.typed_error
          /\ expr_types' = st.expr_types
    /\ next_class' = next_class + 1
    /\ IF next_class = Len(program)
       THEN LET to == checkGate(tc_errors', "declare") IN
            /\ pc' = to
            /\ started' = IF to \in Passes THEN started \cup {to} ELSE started
       ELSE UNCHANGED <<pc, started>>
    /\ UNCHANGED cg_vars
    /\ UNCHANGED em_vars
    /\ UNCHANGED <<constructors, pow>>
    /\ UNCHANGED <<program, errors, class_table, class_definitions, pending,
                   class_layouts>>

DeclareClasses ==
    /\ pc = "declare"
    /\ class_layouts' = declareClasses(program)
    /\ next_class' = 1
    /\ pc' = "define"
    /\ started' = started \cup {"define"}
    /\ UNCHANGED cg_vars
    /\ UNCHANGED em_vars
    /\ UNCHANGED <<constructors, typed_error, expr_types, pow>>
    /\ UNCHANGED <<program, errors, class_table, class_definitions, pending, tc_errors,
                   scope_visits>>

DefineClassStructures ==
    /\ pc = "define"
    /\ next_class <= Len(program)
    /\ class_layouts' = defineClassStructure(program[next_class], class_layouts)
    /\ \E heap \in MallocContents :
          constructors' =
              IF program[next_class].name = "Object" THEN constructors
              ELSE Put(constructors, program[next_class].name,
                       generateClassConstructor(class_layouts'[program[next_class].name],
                                                heap))
    /\ UNCHANGED <<typed_error, expr_types, pow>>
    /\ next_class' = next_class + 1
    /\ pc' = IF next_class = Len(program) THEN "done" ELSE pc
    /\ UNCHANGED cg_vars
    /\ UNCHANGED em_vars
    /\ UNCHANGED <<program, errors, class_table, class_definitions, pending,
                   started, tc_errors, scope_visits>>

(***************************************************************************)
(* CodeGenerator::generate (Semantic_Analysis) after the layouts:          *)
(* defineMethods loop by loop, then llvm::verifyModule and the return      *)
(***************************************************************************)
\* the emitter as the state holds it
Emitter ==
    [defs |-> class_definitions, layouts |-> class_layouts, current_class |-> "",
     current_method |-> "", named_values |-> EmptyMap, allocas |-> 0, errs |-> cg_errors,
     ill_formed |-> ill_formed, crashed |-> FALSE, lets |-> lets, calls |-> calls,
     accesses |-> accesses]

\* defineMethods, first loop
DeclareMethods ==
    /\ pc = "done"
    /\ \E em \in {declareMethods(program, 1, Emitter)} :
       /\ class_layouts' = em.layouts
       /\ cg_errors' = em.errs
       /\ pc' = IF em.crashed THEN "crashed" ELSE "define_methods"
    /\ next_class' = 1
    /\ UNCHANGED em_vars
    /\ UNCHANGED <<constructors, typed_error, expr_types, pow>>
    /\ UNCHANGED <<program, errors, class_table, class_definitions, pending, started,
                   tc_errors, methods, class_vtable_methods,
                   class_method_implementations, vtable_globals, scope_visits>>

\* defineMethods, second loop: the methods of one class
DefineMethodBodies ==
    /\ pc = "define_methods"
    /\ next_class <= Len(program)
    /\ \E acc \in {defineMethodsOf(program[next_class], 1,
                                     [functions |-> functions, em |-> Emitter])} :
          /\ functions' = acc.functions
          /\ cg_errors' = acc.em.errs
          /\ ill_formed' = acc.em.ill_formed
          /\ lets' = acc.em.lets
          /\ calls' = acc.em.calls
          /\ accesses' = acc.em.accesses
          /\ pc' = IF acc.em.crashed THEN "crashed"
                   ELSE IF next_class = Len(program) THEN "entry_point" ELSE pc
    /\ next_class' = next_class + 1
    /\ UNCHANGED <<constructors, typed_error, expr_types, pow>>
    /\ UNCHANGED <<program, errors, class_table, class_definitions, pending, started,
                   tc_errors, class_layouts, methods, class_vtable_methods,
                   class_method_implementations, vtable_globals, scope_visits>>

\* defineMethods, the function "main"
DefineEntryPoint ==
    /\ pc = "entry_point"
    /\ \E e \in {entryPoint(Emitter)} :
       /\ functions' = Append(functions, e.function)
       /\ cg_errors' = e.em.errs
    /\ pc' = "verify"
    /\ UNCHANGED <<constructors, typed_error, expr_types, pow>>
    /\ UNCHANGED <<program, errors, class_table, class_definitions, pending, started,
                   tc_errors, class_layouts, next_class, methods, class_vtable_methods,
                   class_method_implementations, vtable_globals, ill_formed, lets, calls,
                   accesses, scope_visits>>

\* llvm::verifyModule and what generate returns
VerifyModule ==
    /\ pc = "verify"
    /\ IF ill_formed
       THEN /\ cg_errors' = Append(cg_errors, Diag("verification_failed", "", ""))
            /\ pc' = "generate_false"
       ELSE /\ pc' = "generate_true"
            /\ UNCHANGED cg_errors
    /\ UNCHANGED em_vars
    /\ UNCHANGED <<constructors, typed_error, expr_types, pow>>
    /\ UNCHANGED <<program, errors, class_table, class_definitions, pending, started,
                   tc_errors, class_layouts, next_class, methods, class_vtable_methods,
                   class_method_implementations, vtable_globals, scope_visits>>

(***************************************************************************)
(* CodeGenerator::generate (Code_Generation), pass by pass                 *)
(***************************************************************************)
IncludeRuntimeCode ==
    /\ pc = "declare"
    /\ methods' = RuntimeMethods
    /\ class_vtable_methods' = Put(EmptyMap, "Object", object_methods)
    /\ class_method_implementations' = Put(EmptyMap, "Object", ObjectImplementations)
    /\ pending' = DOMAIN class_definitions
    /\ pc' = "vtable_methods"
    /\ started' = started \cup {"vtable_methods"}
    /\ UNCHANGED em_vars
    /\ UNCHANGED <<constructors, typed_error, expr_types, pow>>
    /\ UNCHANGED <<program, errors, class_table, class_definitions, tc_errors,
                   class_layouts, next_class, vtable_globals, cg_errors, scope_visits>>

\* generateClassVTables, Step 1: one class of class_defs
GenerateVTableMethods ==
    /\ pc = "vtable_methods"
    /\ \E name \in pending :
       \E order \in Orders(IF name = "Object" THEN {}
                            ELSE DOMAIN class_definitions[name].methods) :
         \E cg \in {collectVTable(name, order, class_definitions,
                                 [vtable_methods |-> class_vtable_methods,
                                  implementations |-> class_method_implementations,
                                  errs |-> cg_errors])} :
            /\ class_vtable_methods' = cg.vtable_methods
            /\ class_method_implementations' = cg.implementations
            /\ cg_errors' = cg.errs
            /\ IF pending = {name}
               THEN /\ pc' = "vtable_types"
                    /\ pending' = DOMAIN class_vtable_methods'
               ELSE /\ pending' = pending \ {name}
                    /\ UNCHANGED pc
    /\ UNCHANGED em_vars
    /\ UNCHANGED <<constructors, typed_error, expr_types, pow>>
    /\ UNCHANGED <<program, errors, class_table, class_definitions, started, tc_errors,
                   class_layouts, next_class, methods, vtable_globals, scope_visits>>

\* generateClassVTables, Step 2: the table type of Object, then of one other class
GenerateVTableTypes ==
    /\ pc = "vtable_types"
    /\ \E name \in pending :
         /\ "Object" \in pending => name = "Object"
         /\ cg_errors' = missingFunctions("vtable_function_not_found",
                                          class_vtable_methods[name],
                                          class_method_implementations[name],
                                          methods, 1, cg_errors)
         /\ IF pending = {name}
            THEN /\ pc' = "vtable_instances"
                 /\ pending' = DOMAIN class_vtable_methods
            ELSE /\ pending' = pending \ {name}
                 /\ UNCHANGED pc
    /\ UNCHANGED em_vars
    /\ UNCHANGED <<constructors, typed_error, expr_types, pow>>
    /\ UNCHANGED <<program, errors, class_table, class_definitions, started, tc_errors,
                   class_layouts, next_class, methods, class_vtable_methods,
                   class_method_implementations, vtable_globals, scope_visits>>

\* generateClassVTables, Step 3: the constant of Object, then of one other class
GenerateVTableInstances ==
    /\ pc = "vtable_instances"
    /\ \E name \in pending :
         /\ "Object" \in pending => name = "Object"
         /\ cg_errors' = missingFunctions("vtable_instance_function_not_found",
                                          class_vtable_methods[name],
                                          class_method_implementations[name],
                                          methods, 1, cg_errors)
         /\ vtable_globals' = Put(vtable_globals, name,
                                  vtableInstance(class_vtable_methods[name],
                                                 class_method_implementations[name],
                                                 methods))
         /\ pending' = pending \ {name}
         /\ pc' = IF pending = {name} THEN "class_methods" ELSE pc
    /\ UNCHANGED em_vars
    /\ UNCHANGED <<constructors, typed_error, expr_types, pow>>
    /\ UNCHANGED <<program, errors, class_table, class_definitions, started, tc_errors,
                   class_layouts, next_class, methods, class_vtable_methods,
                   class_method_implementations, scope_visits>>

GenerateClassMethods ==
    /\ pc = "class_methods"
    /\ methods' = methods \cup classMethods(class_definitions)
    /\ pc' = "method_bodies"
    /\ next_class' = 1
    /\ UNCHANGED em_vars
    /\ UNCHANGED <<constructors, typed_error, expr_types, pow>>
    /\ UNCHANGED <<program, errors, class_table, class_definitions, pending, started,
                   tc_errors, class_layouts, class_vtable_methods,
                   class_method_implementations, vtable_globals, cg_errors,
                   scope_visits>>

\* the emitter as the state holds it
CodeGen ==
    [defs |-> class_definitions, methods |-> methods, current_class |-> "",
     current_method |-> "", current_vars |-> EmptyMap, errs |-> cg_errors,
     ill_formed |-> ill_formed, lets |-> lets, calls |-> calls, accesses |-> accesses,
     constructors |-> constructors, heap |-> "zero"]

\* generateMethodBodies: one class of program->classes, its methods in the
\* order the iteration of class_def.methods meets them
GenerateMethodBodies ==
    /\ pc = "method_bodies"
    /\ next_class <= Len(program)
    /\ LET cls == program[next_class] IN
       \E order \in Orders(IF Has(class_definitions, cls.name) /\ ~IsPrimitiveName(cls.name)
                            THEN DOMAIN class_definitions[cls.name].methods ELSE {}) :
         \E heap \in MallocContents :
         \E acc \in {generateClassBodies(cls, order,
                                          [functions |-> functions,
                                           cg |-> [CodeGen EXCEPT !.heap = heap]])} :
            /\ constructors' = acc.cg.constructors
            /\ functions' = acc.functions
            /\ cg_errors' = acc.cg.errs
            /\ ill_formed' = acc.cg.ill_formed
            /\ lets' = acc.cg.lets
            /\ calls' = acc.cg.calls
            /\ accesses' = acc.cg.accesses
    /\ UNCHANGED <<typed_error, expr_types, pow>>
    /\ next_class' = next_class + 1
    /\ pc' = IF next_class = Len(program) THEN "main_entry" ELSE pc
    /\ UNCHANGED <<program, errors, class_table, class_definitions, pending, started,
                   tc_errors, class_layouts, methods, class_vtable_methods,
                   class_method_implementations, vtable_globals, scope_visits>>

GenerateMainEntryPoint ==
    /\ pc = "main_entry"
    /\ \E e \in {mainEntryPoint(CodeGen)} :
       /\ functions' = functions \o e.functions
       /\ cg_errors' = e.cg.errs
       /\ ill_formed' = e.cg.ill_formed
    /\ pc' = "cg_verify"
    /\ UNCHANGED <<constructors, typed_error, expr_types, pow>>
    /\ UNCHANGED <<program, errors, class_table, class_definitions, pending, started,
                   tc_errors, class_layouts, next_class, methods, class_vtable_methods,
                   class_method_implementations, vtable_globals, lets, calls,
                   accesses, scope_visits>>

\* llvm::verifyModule and what generate returns: errors.empty()
GenerateReturn ==
    /\ pc = "cg_verify"
    /\ IF ill_formed
       THEN /\ cg_errors' = reportError(cg_errors, Diag("verification_failed", "", ""))
            /\ pc' = "generate_false"
       ELSE /\ pc' = IF cg_errors = <<>> THEN "generate_true" ELSE "generate_false"
            /\ UNCHANGED cg_errors
    /\ UNCHANGED em_vars
    /\ UNCHANGED <<constructors, typed_error, expr_types, pow>>
    /\ UNCHANGED <<program, errors, class_table, class_definitions, pending, started,
                   tc_errors, class_layouts, next_class, methods, class_vtable_methods,
                   class_method_implementations, vtable_globals, scope_visits>>

Next ==
    \/ BuildClassDefinitions
    \/ ValidateInheritanceHierarchy
    \/ CollectMethodsAndFields
    \/ CheckMain
    \/ TypeCheck
    \/ DeclareClasses
    \/ DefineClassStructures
    \/ DeclareMethods
    \/ DefineMethodBodies
    \/ DefineEntryPoint
    \/ VerifyModule
    \/ IncludeRuntimeCode
    \/ GenerateVTableMethods
    \/ GenerateVTableTypes
    \/ GenerateVTableInstances
    \/ GenerateClassMethods
    \/ GenerateMethodBodies
    \/ GenerateMainEntryPoint
    \/ GenerateReturn

Spec == Init /\ [][Next]_vars

(***************************************************************************)
(* The code emitted for base ^ exp, run on integers of IntWidth bits:      *)
(* vsop_pow of Code_Generation (generateBinaryOp), and the blocks          *)
(* powstart, powloop, powdone of Semantic_Analysis (visit of a BinaryOp).   *)
(* pow holds the block control is in, the allocas result and count, and    *)
(* the registers loaded from them.                                         *)
(***************************************************************************)
\* vsop_pow, block entry
VsopPowEntry ==
    /\ pow.emitter = "Code_Generation" /\ pow.block = "entry"
    /\ pow' = [pow EXCEPT !.result = 1, !.count = 0, !.block = "loop_check"]
    /\ UNCHANGED compiler_vars

\* vsop_pow, block loop_check
VsopPowLoopCheck ==
    /\ pow.emitter = "Code_Generation" /\ pow.block = "loop_check"
    /\ pow' = [pow EXCEPT !.current_count = pow.count, !.current_result = pow.result,
                          !.block = IF pow.count < pow.exp THEN "loop_body"
                                    ELSE "loop_exit"]
    /\ UNCHANGED compiler_vars

\* vsop_pow, block loop_body
VsopPowLoopBody ==
    /\ pow.emitter = "Code_Generation" /\ pow.block = "loop_body"
    /\ pow' = [pow EXCEPT !.result = Wrap(pow.current_result * pow.base),
                          !.count = Wrap(pow.current_count + 1),
                          !.block = "loop_check"]
    /\ UNCHANGED compiler_vars

\* vsop_pow, block loop_exit
VsopPowLoopExit ==
    /\ pow.emitter = "Code_Generation" /\ pow.block = "loop_exit"
    /\ pow' = [pow EXCEPT !.value = pow.current_result, !.block = "returned"]
    /\ UNCHANGED compiler_vars

\* visit(const BinaryOp*): the test isneg at the end of the current block
PowTest ==
    /\ pow.emitter = "Semantic_Analysis" /\ pow.block = "powtest"
    /\ pow' = [pow EXCEPT !.block = IF pow.exp <= 0 THEN "powdone_from_test"
                                    ELSE "powstart"]
    /\ UNCHANGED compiler_vars

\* block powstart
PowStart ==
    /\ pow.emitter = "Semantic_Analysis" /\ pow.block = "powstart"
    /\ pow' = [pow EXCEPT !.result = 1, !.count = pow.exp, !.block = "powloop"]
    /\ UNCHANGED compiler_vars

\* block powloop: the two loads, the test isdone and the branch; the
\* subtraction, the multiplication and the two stores were inserted behind
\* the branch and are never reached
PowLoop ==
    /\ pow.emitter = "Semantic_Analysis" /\ pow.block = "powloop"
    /\ pow' = [pow EXCEPT !.current_result = pow.result, !.current_count = pow.count,
                          !.block = IF pow.count = 0 THEN "powdone_from_loop"
                                    ELSE "powloop"]
    /\ UNCHANGED compiler_vars

\* block powdone: the phi has the value current_result for the edge from
\* powloop; it names no value for the edge from the block of the test, so
\* any value of the width may come out
PowDone ==
    /\ pow.emitter = "Semantic_Analysis"
    /\ pow.block \in {"powdone_from_test", "powdone_from_loop"}
    /\ \E undefined \in Ints :
          pow' = [pow EXCEPT !.value = IF pow.block = "powdone_from_loop"
                                       THEN pow.current_result ELSE undefined,
                             !.block = "returned"]
    /\ UNCHANGED compiler_vars

\* the operands of the runs explored
PowCalls ==
    {PowCall(emitter, base, exp) :
        emitter \in {"Code_Generation", "Semantic_Analysis"}, base \in Ints, exp \in Ints}

PowInit ==
    /\ program = <<>>
    /\ Constructed
    /\ pow \in PowCalls

PowNext ==
    \/ VsopPowEntry
    \/ VsopPowLoopCheck
    \/ VsopPowLoopBody
    \/ VsopPowLoopExit
    \/ PowTest
    \/ PowStart
    \/ PowLoop
    \/ PowDone

\* the emitted code runs on: a block that can be left is left
PowSpec == PowInit /\ [][PowNext]_vars /\ WF_vars(PowNext)

(***************************************************************************)
(* Vocabulary of the properties                                            *)
(***************************************************************************)
Reported == {errors[i] : i \in 1..Len(errors)}

HierarchyKinds == {"cyclic_inheritance", "extends_undefined", "extends_primitive"}

BuildKinds == {"redefine_primitive", "redefine_object", "redefine_class"}

\* validateInheritanceHierarchy has visited every class
ValidationDone == "validate" \in started /\ pc # "validate"

\* the class table passed validation without a diagnostic
Validated == "collect" \in started

\* collectMethodsAndFields has visited every class
CollectDone == "collect" \in started /\ pc # "collect"

\* the visit of TypeChecker::check is over
TypeCheckDone == "typecheck" \in started /\ pc # "typecheck"

Named(c) == \E d \in Reported : d.kind \in HierarchyKinds /\ d.cls = c

\* following parent links from c reaches Object within n steps
RECURSIVE ReachesObject(_, _, _)
ReachesObject(c, n, defs) ==
    IF c = "Object" THEN TRUE
    ELSE IF n = 0 \/ ~Has(defs, c) THEN FALSE
    ELSE ReachesObject(defs[c].parent, n - 1, defs)

\* the classes met when following parent links from c, c included
RECURSIVE ParentChain(_, _, _)
ParentChain(c, acc, defs) ==
    IF c \in acc \/ ~Has(defs, c) THEN acc
    ELSE ParentChain(defs[c].parent, acc \cup {c}, defs)

ProperAncestors(c, defs) == ParentChain(defs[c].parent, {}, defs)

Rooted(c) == ReachesObject(c, Cardinality(DOMAIN class_definitions), class_definitions)

\* the types the checker can name over the current class table
TypesOf(defs) ==
    {resolveType(n, defs) : n \in PrimitiveNames \cup DOMAIN defs} \cup {TypeError}

ClassTypesOf(defs) == {t \in TypesOf(defs) : t.kind = "CLASS"}

PrimitiveTypes == {TypeInt32, TypeBoolean, TypeString, TypeUnit}

(***************************************************************************)
(* C1: after buildClassDefinitions and validateInheritanceHierarchy, every *)
(* class either reaches Object by parent links within as many steps as     *)
(* there are classes, or is named by a diagnostic of the hierarchy check.  *)
(* As stated this fails for a class whose chain is broken further up.      *)
(***************************************************************************)
C1_RootedOrNamed ==
    ValidationDone =>
        \A c \in UserClasses(class_definitions) : Rooted(c) \/ Named(c)

(***************************************************************************)
(* C1, amended: every class either reaches Object within as many steps as  *)
(* there are classes, or a diagnostic of the hierarchy check names the      *)
(* class or a class on its parent chain.                                    *)
(***************************************************************************)
C1_RootedOrChainNamed ==
    ValidationDone =>
        \A c \in UserClasses(class_definitions) :
            Rooted(c) \/ \E d \in ParentChain(c, {}, class_definitions) : Named(d)

C1_Witness ==
    /\ ValidationDone
    /\ \E c \in UserClasses(class_definitions) :
          /\ ~Rooted(c)
          /\ ~Named(c)
          /\ \E d \in ParentChain(c, {}, class_definitions) : Named(d)

(***************************************************************************)
(* C2: member resolution starts only after class-table construction and    *)
(* hierarchy validation recorded no error, the type-check visit only after *)
(* analyze recorded no error, code generation only after the type check    *)
(* recorded no error; a program with a class extending itself never        *)
(* reaches member resolution.                                              *)
(***************************************************************************)
C2_PassesGated ==
    /\ "collect" \in started =>
          \A d \in Reported : d.kind \notin BuildKinds \cup HierarchyKinds
    /\ "typecheck" \in started => errors = <<>>
    /\ "declare" \in started => errors = <<>> /\ tc_errors = <<>>
    /\ (\E i \in 1..Len(program) : program[i].parent = program[i].name)
          => "collect" \notin started

C2_Witness ==
    /\ pc = "failed"
    /\ "validate" \in started
    /\ "collect" \notin started
    /\ \E i \in 1..Len(program) : program[i].parent = program[i].name
    /\ \E d \in Reported : d.kind = "cyclic_inheritance"

(***************************************************************************)
(* C3: whatever the order in which collectMethodsAndFields visits the      *)
(* classes, a method whose name a proper ancestor declares with a          *)
(* signature that is not override-compatible is reported, is not           *)
(* installed, and findMethodSignature on the class still yields the        *)
(* ancestor's signature.                                                   *)
(***************************************************************************)
DeclaredSignature(m, defs) ==
    MethodSignature(m.name,
                    [i \in 1..Len(m.formals) |->
                        FormalParam(m.formals[i].name, resolveType(m.formals[i].type, defs))],
                    resolveType(m.return_type, defs))

NodeOf(c) == program[class_table[c]]

MethodsNamed(c, n) ==
    {NodeOf(c).methods[i] : i \in {j \in 1..Len(NodeOf(c).methods) : NodeOf(c).methods[j].name = n}}

C3_IncompatibleOverrideRejected ==
    CollectDone =>
        \A c \in DOMAIN class_table :
        \A i \in 1..Len(NodeOf(c).methods) :
        \A a \in ProperAncestors(c, class_definitions) \cap DOMAIN class_table :
        \A am \in MethodsNamed(a, NodeOf(c).methods[i].name) :
            LET m == NodeOf(c).methods[i]
                sig == DeclaredSignature(m, class_definitions)
                asig == DeclaredSignature(am, class_definitions)
            IN ~isCompatible(sig, asig) =>
                  /\ Diag("incompatible_override", c, m.name) \in Reported
                  /\ ~Has(class_definitions[c].methods, m.name)
                  /\ findMethodSignature(c, m.name, class_definitions).found
                  /\ \E a2 \in ProperAncestors(c, class_definitions) \cap DOMAIN class_table :
                     \E am2 \in MethodsNamed(a2, m.name) :
                        findMethodSignature(c, m.name, class_definitions).value
                            = DeclaredSignature(am2, class_definitions)

(***************************************************************************)
(* C4: whatever the order in which collectMethodsAndFields visits the      *)
(* classes, a field whose name a proper ancestor declares as a field is    *)
(* reported and is not added to the field map of its class.                *)
(***************************************************************************)
FieldNames(c) == {NodeOf(c).fields[i].name : i \in 1..Len(NodeOf(c).fields)}

C4_ShadowingFieldRejected ==
    CollectDone =>
        \A c \in DOMAIN class_table :
        \A f \in FieldNames(c) :
            (\E a \in ProperAncestors(c, class_definitions) \cap DOMAIN class_table :
                 f \in FieldNames(a))
            => /\ Diag("field_shadows", c, f) \in Reported
               /\ ~Has(class_definitions[c].fields, f)

(***************************************************************************)
(* C5: whatever the order in which the classes are declared, the           *)
(* field-index map of a class holds every entry of its parent's map with   *)
(* the same index.                                                         *)
(***************************************************************************)
C5_LayoutPrefix ==
    pc = "done" =>
        \A c \in DOMAIN class_layouts :
            LET p == class_layouts[c].parent IN
            Has(class_layouts, p) =>
                \A f \in DOMAIN class_layouts[p].field_indices :
                    /\ Has(class_layouts[c].field_indices, f)
                    /\ class_layouts[c].field_indices[f] = class_layouts[p].field_indices[f]

(***************************************************************************)
(* C6: a primitive type conforms to no type other than itself and Error;   *)
(* in particular not to Object.                                            *)
(***************************************************************************)
C6_PrimitiveConformsOnlyToItself ==
    Validated =>
        \A p \in PrimitiveTypes :
        \A t \in TypesOf(class_definitions) \ {p, TypeError} :
            /\ ~conformsTo(p, t, class_definitions)
            /\ ~isSubtypeOf(p.name, t.name, class_definitions)

(***************************************************************************)
(* C7: every type conforms to itself and every declared class type         *)
(* conforms to Object.                                                     *)
(***************************************************************************)
C7_ReflexiveAndRooted ==
    Validated =>
        /\ \A a \in TypesOf(class_definitions) : conformsTo(a, a, class_definitions)
        /\ \A a \in ClassTypesOf(class_definitions) :
              conformsTo(a, TypeObject, class_definitions)

C7_Witness ==
    /\ Validated
    /\ \E a \in ClassTypesOf(class_definitions) :
          /\ a.name # "Object"
          /\ class_definitions[a.name].parent # "Object"
          /\ conformsTo(a, TypeObject, class_definitions)
          /\ conformsTo(a, a, class_definitions)

(***************************************************************************)
(* C8: over a validated class table findCommonAncestor(A, B) and           *)
(* findCommonAncestor(B, A) name the same type.                            *)
(***************************************************************************)
JoinArguments(defs) == TypesOf(defs) \cup {MkType("Nope", "CLASS")}

C8_JoinCommutes ==
    Validated =>
        \A a, b \in JoinArguments(class_definitions) :
            findCommonAncestor(a, b, class_definitions).name
                = findCommonAncestor(b, a, class_definitions).name

C8_Witness ==
    /\ Validated
    /\ \E a, b \in ClassTypesOf(class_definitions) :
          /\ a # b
          /\ ~conformsTo(a, b, class_definitions)
          /\ ~conformsTo(b, a, class_definitions)
          /\ findCommonAncestor(a, b, class_definitions).name # "Object"
    /\ \E a, b \in ClassTypesOf(class_definitions) :
          /\ a.name \notin {b.name, "Object"}
          /\ findCommonAncestor(a, b, class_definitions) = a

(***************************************************************************)
(* C9: for valid non-Error types A and B findCommonAncestor(A, B) is a     *)
(* class type to which both conform, for two class types the nearest such  *)
(* ancestor; with an Error input the result is Error.  As stated this      *)
(* fails for two equal primitive types.                                    *)
(***************************************************************************)
CommonAncestors(a, b, defs) ==
    {u \in ClassTypesOf(defs) : conformsTo(a, u, defs) /\ conformsTo(b, u, defs)}

JoinIsUpperBound(a, b, r, defs) == conformsTo(a, r, defs) /\ conformsTo(b, r, defs)

JoinIsNearest(a, b, r, defs) ==
    (a.kind = "CLASS" /\ b.kind = "CLASS") =>
        \A u \in CommonAncestors(a, b, defs) : conformsTo(r, u, defs)

JoinOfError(defs) ==
    \A a \in TypesOf(defs) :
        /\ findCommonAncestor(a, TypeError, defs) = TypeError
        /\ findCommonAncestor(TypeError, a, defs) = TypeError

LiteralType(e) ==
    IF e = NoExpr THEN "" 
    ELSE IF e[1] = "int" THEN "int32"
    ELSE IF e[1] \in {"bool", "string", "unit"} THEN e[1]
    ELSE ""

MixedPrimitiveIf(e) ==
    /\ e # NoExpr
    /\ e[1] = "if"
    /\ LiteralType(e[3]) # ""
    /\ LiteralType(e[4]) # ""
    /\ LiteralType(e[3]) # LiteralType(e[4])

C10_MixedPrimitiveIfRejected ==
    (TypeCheckDone /\ \E i \in 1..Len(program) :
                      \E j \in 1..Len(program[i].methods) :
                      \E k \in 1..Len(program[i].methods[j].body[2]) :
                          MixedPrimitiveIf(program[i].methods[j].body[2][k]))
    => tc_errors # <<>>

(***************************************************************************)
(* C11: isCompatible(s, t) holds exactly when s and t have the same return *)
(* type name, as many parameters, and the same parameter type names in     *)
(* the same positions; the names of the parameters and conformance between *)
(* the types play no part.                                                 *)
(***************************************************************************)
\* the class table has just passed validation: member resolution is about
\* to visit its first class
JustValidated == pc = "collect" /\ pending = DOMAIN class_table

SignatureTypes(defs) == {TypeInt32} \cup {t \in ClassTypesOf(defs) : t.name # "Object"}

ParameterLists(defs) ==
    {<<>>}
    \cup {<<FormalParam(x, t)>> : x \in {"n", "m"}, t \in SignatureTypes(defs)}
    \cup {<<FormalParam(x, t), FormalParam("k", u)>> :
              x \in {"n", "m"}, t \in SignatureTypes(defs), u \in SignatureTypes(defs)}

Signatures(defs) ==
    {MethodSignature("foo", ps, r) : ps \in ParameterLists(defs), r \in SignatureTypes(defs)}

ParameterTypeNames(s) == [i \in 1..Len(s.parameters) |-> s.parameters[i].type.name]

C11_CompatibleIffSameTypeNames ==
    JustValidated =>
        \A s, t \in Signatures(class_definitions) :
            isCompatible(s, t)
                <=> /\ s.returnType.name = t.returnType.name
                    /\ ParameterTypeNames(s) = ParameterTypeNames(t)

C11_Witness ==
    /\ JustValidated
    /\ \E s, t \in Signatures(class_definitions) :
          /\ isCompatible(s, t)
          /\ Len(s.parameters) = 2
          /\ s.parameters[1].name # t.parameters[1].name
    /\ \E s, t \in Signatures(class_definitions) :
          /\ ~isCompatible(s, t)
          /\ s.returnType = t.returnType
          /\ Len(s.parameters) = 1 /\ Len(t.parameters) = 1
          /\ s.parameters[1].type # t.parameters[1].type
          /\ conformsTo(s.parameters[1].type, t.parameters[1].type, class_definitions)

(***************************************************************************)
(* C12: analyze returns true only if the program has a class Main that     *)
(* itself declares a method main without parameters and with return type   *)
(* int32; once the check of Main has run, each condition that is violated  *)
(* (no Main, no main, parameters, return type) has its own diagnostic in   *)
(* the error list, and no other of the four is there.                      *)
(***************************************************************************)
AnalyzeReturnedTrue == "typecheck" \in started

MainCheckDone == "main" \in started /\ pc # "main"

MainClasses == {i \in 1..Len(program) : program[i].name = "Main"}

MainsOf(i) ==
    {program[i].methods[j] :
        j \in {k \in 1..Len(program[i].methods) : program[i].methods[k].name = "main"}}

DeclaredMains == UNION {MainsOf(i) : i \in MainClasses}

C12_MainRequired ==
    /\ AnalyzeReturnedTrue =>
          /\ MainClasses # {}
          /\ \E m \in DeclaredMains : m.formals = <<>> /\ m.return_type = "int32"
    /\ MainCheckDone =>
          /\ Diag("no_main_class", "Main", "") \in Reported <=> MainClasses = {}
          /\ Diag("no_main_method", "Main", "main") \in Reported
                <=> (MainClasses # {} /\ DeclaredMains = {})
          /\ Diag("main_has_parameters", "Main", "main") \in Reported
                <=> \E m \in DeclaredMains : m.formals # <<>>
          /\ Diag("main_return_type", "Main", "main") \in Reported
                <=> \E m \in DeclaredMains : m.return_type # "int32"

C12_Witness ==
    /\ MainCheckDone
    /\ ~AnalyzeReturnedTrue
    /\ Diag("no_main_method", "Main", "main") \in Reported
    /\ MainClasses # {}
    /\ \E i \in 1..Len(program) :
          /\ program[i].name = "A"
          /\ \E j \in 1..Len(program[i].methods) :
                /\ program[i].methods[j].name = "main"
                /\ program[i].methods[j].formals = <<>>
                /\ program[i].methods[j].return_type = "int32"

(***************************************************************************)
(* C13: whatever the order in which the class-definition map is iterated,  *)
(* generateClassVTables leaves for every user class a dispatch table       *)
(* whose every slot holds a function declared in the module, never the     *)
(* null pointer, and records no code-generation error.                     *)
(***************************************************************************)
VTablesDone == "vtable_methods" \in started
                   /\ pc \notin {"vtable_methods", "vtable_types", "vtable_instances"}

C13_DispatchTablesComplete ==
    VTablesDone =>
        /\ cg_errors = <<>>
        /\ \A c \in UserClasses(class_definitions) :
              /\ Has(vtable_globals, c)
              /\ \A i \in 1..Len(vtable_globals[c]) :
                    /\ vtable_globals[c][i] # NullFunction
                    /\ vtable_globals[c][i] \in methods

(***************************************************************************)
(* C14: the diagnostics a failed check returns hold no string twice.       *)
(***************************************************************************)
CheckFailed == pc = "failed"

C14_DiagnosticsDistinct ==
    CheckFailed =>
        \A i, j \in 1..Len(tc_errors) : tc_errors[i] = tc_errors[j] => i = j

(***************************************************************************)
(* C15: whenever the emitter has recorded a code-generation error,         *)
(* CodeGenerator::generate returns false.                                  *)
(***************************************************************************)
GenerateReturnedTrue == pc = "generate_true"

C15_ErrorsFailGeneration == GenerateReturnedTrue => cg_errors = <<>>

(***************************************************************************)
(* C20: for every call that passed type checking, whatever the form of     *)
(* its receiver, the emitter resolves the callee to the function of the    *)
(* nearest class in the static class chain of the receiver that declares   *)
(* the method.                                                             *)
(***************************************************************************)
\* the scopes the type checker has at the body of `method` of class `cls`
BodyScopes(cls, method, defs) ==
    LET st0 == addSymbol(enterScope([TypeCheckerInit EXCEPT !.current_class = cls.name]),
                         "self", cls.name)
        st1 == addSymbol(enterScope(st0), "self", cls.name)
    IN formalsLoop(method.formals, 1, [st |-> st1, formal_names |-> {}], defs).st

\* the calls of an expression, each with the type the checker gives its receiver
RECURSIVE StaticCalls(_, _, _)
StaticCalls(e, st, defs) ==
    IF e = NoExpr THEN {}
    ELSE IF e[1] = "block"
    THEN UNION {StaticCalls(e[2][i], st, defs) : i \in 1..Len(e[2])}
    ELSE IF e[1] = "let"
    THEN StaticCalls(e[4], st, defs)
         \cup StaticCalls(e[5], addSymbol(enterScope(st), e[2], e[3]), defs)
    ELSE IF e[1] = "call"
    THEN {[call |-> e,
           receiver |-> IF e[2] = NoExpr THEN lookupSymbol("self", st, defs)
                        ELSE Visit(e[2], st, defs).ty]}
         \cup StaticCalls(e[2], st, defs)
    ELSE {}

\* the nearest class of the chain of c that declares m
RECURSIVE DeclaringClass(_, _, _)
DeclaringClass(c, m, defs) ==
    IF ~Has(defs, c) THEN ""
    ELSE IF Has(defs[c].methods, m) THEN c
    ELSE IF c = "Object" THEN ""
    ELSE DeclaringClass(defs[c].parent, m, defs)

MethodBodiesEmitted == pc \in {"entry_point", "verify", "generate_true", "generate_false"}

C20_CalleeFromStaticChain ==
    MethodBodiesEmitted =>
        \A i \in 1..Len(calls) :
            LET r == calls[i]
                cls == NodeOf(r.class)
            IN \A k \in 1..Len(cls.methods) :
                 cls.methods[k].name = r.method =>
                   \A sc \in StaticCalls(cls.methods[k].body,
                                         BodyScopes(cls, cls.methods[k], class_definitions),
                                         class_definitions) :
                     sc.call = r.call =>
                       r.callee = FunctionName(DeclaringClass(sc.receiver, r.call[3],
                                                              class_definitions),
                                               r.call[3])

(***************************************************************************)
(* C18: after the emitter has lowered a let, the variable-to-storage map   *)
(* is the map it had before the let, also when lowering the body failed    *)
(* and the let returned early.                                             *)
(***************************************************************************)
C18_LetRestoresVariableMap ==
    \A i \in 1..Len(lets) : lets[i].after = lets[i].before

(***************************************************************************)
(* C16: in emitted code a read of a local variable yields the value stored *)
(* by the most recent assignment executed on the actual control-flow path, *)
(* or the let initializer if there was none, assignments inside one branch *)
(* of an if included: the method m returns what the source semantics of    *)
(* its body gives for every argument.                                      *)
(***************************************************************************)
IntegerValue(s) ==
    CASE s = "0" -> 0 [] s = "1" -> 1 [] s = "2" -> 2 [] s = "5" -> 5

\* source semantics: the value of e and the variables after it, from the
\* variables env before it
RECURSIVE Run(_, _)
RunBlock(es, env) ==
    LET step[i \in 0..Len(es)] ==
            IF i = 0 THEN [val |-> 0, env |-> env] ELSE Run(es[i], step[i - 1].env)
    IN step[Len(es)]

Run(e, env) ==
    CASE e[1] = "int" -> [val |-> IntegerValue(LiteralValue(e)), env |-> env]
      [] e[1] = "bool" -> [val |-> LiteralValue(e) = "true", env |-> env]
      [] e[1] = "id" -> [val |-> env[e[2]], env |-> env]
      [] e[1] = "assign" ->
           LET v == Run(e[3], env) IN [val |-> v.val, env |-> Put(v.env, e[2], v.val)]
      [] e[1] = "binop" ->
           LET l == Run(e[3], env)
               r == Run(e[4], l.env)
           IN [val |-> l.val + r.val, env |-> r.env]
      [] e[1] = "if" ->
           LET c == Run(e[2], env) IN
           IF c.val THEN Run(e[3], c.env) ELSE Run(e[4], c.env)
      [] e[1] = "block" -> RunBlock(e[2], env)
      [] e[1] = "let" ->
           LET init == Run(e[4], env)
               body == Run(e[5], Put(init.env, e[2], init.val))
           IN [val |-> body.val,
               env |-> [n \in DOMAIN init.env |->
                           IF n = e[2] THEN init.env[n] ELSE body.env[n]]]

\* what an emitted value computes when the function runs with arguments args
RECURSIVE Eval(_, _)
Eval(v, args) ==
    CASE v[1] = "const" -> IF v[2] \in {"true", "false"} THEN v[2] = "true"
                           ELSE IntegerValue(v[2])
      [] v[1] = "arg" -> args[v[2]]
      [] v[1] = "binop" -> Eval(v[3], args) + Eval(v[4], args)
      [] v[1] = "phi" -> IF Eval(v[2], args) THEN Eval(v[3], args) ELSE Eval(v[4], args)

\* the method m of the class Main of the program
MethodM == CHOOSE m \in MethodsNamed("Main", "m") : TRUE

SSAEmitter == "vtable_methods" \in started

C16_ReadsSeeLastAssignment ==
    \A i \in 1..Len(functions) :
        ( /\ SSAEmitter
          /\ functions[i].name = FunctionName("Main", "m")
          /\ MethodM.return_type = "int32"
          /\ MethodM.body[2] \in LocalBodies )
        => \A x \in {0, 1}, c \in BOOLEAN :
              LET args == [n \in {"x", "c"} |-> IF n = "x" THEN x ELSE c] IN
              Eval(functions[i].body[1][2], args) = Run(MethodM.body, args).val

(***************************************************************************)
(* C17: a generate call creates exactly one process entry function, and    *)
(* only after the method bodies of every class have been emitted; the      *)
(* entry function calls the constructor of Main once, then Main.main on    *)
(* that instance, and returns the int32 result of that call.               *)
(***************************************************************************)
EntryFunctions == {i \in 1..Len(functions) : functions[i].name = EntryName}

\* the constructor of Main, under the name either emitter gives it
MainConstructors == {Constructor("Main"), FunctionName("Main", "_new")}

RunsMain(body) ==
    \E ctor \in MainConstructors :
        body = << <<"call", ctor>>,
                  <<"call", FunctionName("Main", "main"), <<"result", ctor>>>>,
                  <<"ret", <<"result", FunctionName("Main", "main")>>>> >>

EntryPointDone == pc \in {"verify", "cg_verify", "generate_true", "generate_false"}

C17_EntryPointRunsMain ==
    /\ Cardinality(EntryFunctions) <= 1
    /\ EntryPointDone /\ "declare" \in started => EntryFunctions # {}
    /\ \A i \in EntryFunctions :
          /\ EntryPointDone
          /\ i = Len(functions)
          /\ RunsMain(functions[i].body)

(***************************************************************************)
(* C19: when the type checker has finished visiting a class, a method or   *)
(* a let expression, with or without type errors inside it, the scope      *)
(* stack holds the frames, with the bindings, it held immediately before   *)
(* the visit.                                                              *)
(***************************************************************************)
C19_ScopesRestored ==
    \A i \in 1..Len(scope_visits) : scope_visits[i].after = scope_visits[i].before

\* a let with an error inside it, in a method of a class, all three visited
C19_Witness ==
    \E i, j, k \in 1..Len(scope_visits) :
        /\ i < j /\ j < k
        /\ scope_visits[i].kind = "let" /\ scope_visits[i].reported
        /\ Len(scope_visits[i].before) = 3
        /\ scope_visits[i].after = scope_visits[i].before
        /\ scope_visits[j].kind = "method" /\ scope_visits[j].reported
        /\ scope_visits[j].after = scope_visits[j].before
        /\ scope_visits[k].kind = "class" /\ scope_visits[k].reported
        /\ scope_visits[k].after = scope_visits[k].before

(***************************************************************************)
(* C21: within one object, the emitted reads and writes of two different   *)
(* fields, own or inherited, never address the same slot, and no field     *)
(* access addresses slot 0, the dispatch pointer.                          *)
(***************************************************************************)
C21_FieldSlotsDistinct ==
    \A i, j \in 1..Len(accesses) :
        /\ accesses[i].slot # 0
        /\ (accesses[i].class = accesses[j].class /\ accesses[i].field # accesses[j].field)
              => accesses[i].slot # accesses[j].slot

(***************************************************************************)
(* C23: for every class C with parent P for which a dispatch table is      *)
(* built, the method-name list of the table of C has the list of P as a    *)
(* positional prefix; at each inherited slot the implementation is the     *)
(* function of C if C declares that method and otherwise the               *)
(* implementation the table of P holds; the methods C introduces occupy    *)
(* the slots after the prefix, each name exactly once.                     *)
(***************************************************************************)
TableParent(c) ==
    IF class_definitions[c].parent = "" THEN "Object" ELSE class_definitions[c].parent

TableOf(c) == class_vtable_methods[c]

ImplementationOf(c, m) == class_method_implementations[c][m]

Introduced(c) ==
    {m \in DOMAIN class_definitions[c].methods :
        \A k \in 1..Len(TableOf(TableParent(c))) : TableOf(TableParent(c))[k] # m}

C23_TableExtendsParent ==
    \A c \in (DOMAIN class_vtable_methods) \ {"Object"} :
        LET p == TableParent(c) IN
        /\ Has(class_vtable_methods, p)
        /\ Len(TableOf(p)) <= Len(TableOf(c))
        /\ \A i \in 1..Len(TableOf(p)) :
              /\ TableOf(c)[i] = TableOf(p)[i]
              /\ ImplementationOf(c, TableOf(c)[i])
                    = IF Has(class_definitions[c].methods, TableOf(c)[i])
                      THEN FunctionName(c, TableOf(c)[i])
                      ELSE ImplementationOf(p, TableOf(p)[i])
        /\ \A i \in (Len(TableOf(p)) + 1)..Len(TableOf(c)) :
              /\ TableOf(c)[i] \in Introduced(c)
              /\ ImplementationOf(c, TableOf(c)[i]) = FunctionName(c, TableOf(c)[i])
        /\ \A m \in Introduced(c) :
              Cardinality({i \in 1..Len(TableOf(c)) : TableOf(c)[i] = m}) = 1
        /\ \A i, j \in 1..Len(TableOf(c)) : TableOf(c)[i] = TableOf(c)[j] => i = j

\* B below A has a table that overrides a method of A, inherits another and
\* introduces one; Main below B overrides the method B inherited
C23_Witness ==
    /\ pc = "vtable_types"
    /\ Has(class_vtable_methods, "B") /\ Has(class_vtable_methods, "Main")
    /\ TableParent("B") = "A" /\ TableParent("Main") = "B"
    /\ ImplementationOf("B", "foo") = FunctionName("B", "foo")
    /\ ImplementationOf("B", "bar") = FunctionName("A", "bar")
    /\ ImplementationOf("Main", "bar") = FunctionName("Main", "bar")
    /\ ImplementationOf("Main", "foo") = FunctionName("B", "foo")
    /\ Introduced("B") = {"baz"}
    /\ Len(TableOf("A")) < Len(TableOf("B")) /\ Len(TableOf("B")) < Len(TableOf("Main"))

(***************************************************************************)
(* C22: the object the synthesized constructor of a class C returns has    *)
(* the address of the dispatch table of C in slot 0 and zero or null in    *)
(* every field slot of the layout of C, the inherited slots included, for  *)
(* every order in which the classes are declared.                          *)
(***************************************************************************)
\* the fields of c, its own and those of its ancestors
AllFields(c) ==
    UNION {DOMAIN class_definitions[a].fields : a \in ParentChain(c, {}, class_definitions)}

DispatchTableOf(c) == <<"vtable", c>>

FieldSlotsZeroed(c) ==
    /\ Len(constructors[c]) = 1 + Cardinality(AllFields(c))
    /\ \A i \in 2..Len(constructors[c]) : constructors[c][i] = <<"zero">>

C22_ConstructedObject ==
    \A c \in DOMAIN constructors :
        /\ constructors[c][1] = DispatchTableOf(c)
        /\ FieldSlotsZeroed(c)

(***************************************************************************)
(* C24: lowering a unit-typed expression (the unit literal, a while, an if *)
(* without else, the empty block) yields a value, never the null pointer,  *)
(* so that the block, the if or the method body that holds it is lowered   *)
(* completely and without a code-generation error.                         *)
(***************************************************************************)
\* the bodies of the methods have been lowered, the entry point is next
BodiesLowered == pc \in {"entry_point", "main_entry"}

\* the diagnostics of the pass that builds the dispatch tables
TableKinds ==
    {"vtable_parent_not_found", "vtable_function_not_found",
     "vtable_instance_function_not_found"}

C24_UnitLoweredCompletely ==
    (BodiesLowered /\ program \in UnitPrograms) =>
        /\ ~ill_formed
        /\ \A i \in 1..Len(cg_errors) : cg_errors[i].kind \in TableKinds
        /\ \E i \in 1..Len(functions) : functions[i].name = FunctionName("Main", "m")

(***************************************************************************)
(* C25: whenever the type checker gives the Error type to an expression,   *)
(* or member resolution leaves a declared field or method out of its class *)
(* definition, the error list holds a diagnostic by then; hence            *)
(* TypeChecker::check returns true only if no expression was typed Error.  *)
(***************************************************************************)
\* collectMethodsAndFields has visited class c
Collected(c) ==
    "collect" \in started /\ Has(class_table, c) /\ (pc = "collect" => c \notin pending)

LeftOut(c) ==
    \/ \E k \in 1..Len(NodeOf(c).fields) :
          ~Has(class_definitions[c].fields, NodeOf(c).fields[k].name)
    \/ \E k \in 1..Len(NodeOf(c).methods) :
          ~Has(class_definitions[c].methods, NodeOf(c).methods[k].name)

CheckReturnedTrue == "declare" \in started

C25_ErrorsAreReported ==
    /\ ~typed_error.silent
    /\ typed_error.any => tc_errors # <<>>
    /\ CheckReturnedTrue => ~typed_error.any
    /\ \A c \in DOMAIN class_table : (Collected(c) /\ LeftOut(c)) => errors # <<>>

\* the check has failed on an expression typed Error, after a member
\* resolution that left nothing out
C25_Witness ==
    /\ pc = "failed"
    /\ typed_error.any
    /\ tc_errors # <<>>
    /\ errors = <<>>
    /\ \A c \in DOMAIN class_table : Collected(c) /\ ~LeftOut(c)

(***************************************************************************)
(* C26: a call on a receiver of class type with well-typed arguments is    *)
(* typed with the declared return type of the first declaration of the     *)
(* method on the receiver's ancestor chain, and reports nothing, exactly   *)
(* when there are as many arguments as parameters and every argument type  *)
(* conforms to its parameter type (a primitive only to itself, a class to  *)
(* itself, its ancestors and Object); otherwise the call is typed Error    *)
(* and a diagnostic about it is recorded.                                  *)
(***************************************************************************)
RECURSIVE FirstDeclaration(_, _, _)
FirstDeclaration(c, m, seen) ==
    IF c \in seen \/ ~Has(class_definitions, c) THEN <<>>
    ELSE IF Has(class_definitions[c].methods, m) THEN <<class_definitions[c].methods[m]>>
    ELSE FirstDeclaration(class_definitions[c].parent, m, seen \cup {c})

Conforms(a, b) ==
    \/ a = b
    \/ /\ ~IsPrimitiveName(a)
       /\ ~IsPrimitiveName(b)
       /\ b \in ParentChain(a, {}, class_definitions) \cup {"Object"}

Accepted(call) ==
    LET found == FirstDeclaration(call.class, call.method, {}) IN
    /\ found # <<>>
    /\ Len(found[1].parameters) = Len(call.args)
    /\ \A i \in 1..Len(call.args) : Conforms(call.args[i], found[1].parameters[i].type.name)

CallDiagnostics == {"method_not_found", "argument_count", "argument_type"}

CallTypedAsDeclared(call) ==
    IF Accepted(call)
    THEN /\ call.type = FirstDeclaration(call.class, call.method, {})[1].returnType.name
         /\ ~call.reported
    ELSE /\ call.type = ErrorName
         /\ \E i \in 1..Len(call.errs) :
                call.errs[i].kind \in CallDiagnostics /\ call.errs[i].cls = call.method

C26_CallTypedFromSignature ==
    \A k \in 1..Len(expr_types) :
        expr_types[k].kind = "call" => CallTypedAsDeclared(expr_types[k])

(***************************************************************************)
(* C27: in a let of a variable x with a valid declared type T, the         *)
(* initialiser is checked with the scopes the let was entered with, the    *)
(* body is checked with one more scope that binds only x, to T, the scopes *)
(* after the let are those before it, the let has the type of its body,    *)
(* and an initialiser whose type does not conform to T leaves a diagnostic *)
(* about x.                                                                *)
(***************************************************************************)
LetScoped(l) ==
    /\ l.init_scopes = l.enclosing
    /\ l.body_scopes = <<Put(EmptyMap, l.name, l.declared)>> \o l.enclosing
    /\ l.after = l.enclosing
    /\ l.type = l.body_type

InitChecked(l) ==
    (l.has_init /\ l.init_type # ErrorName /\ ~Conforms(l.init_type, l.declared)) =>
        \E i \in 1..Len(l.errs) :
            l.errs[i].kind = "let_init_type" /\ l.errs[i].cls = l.name

C27_LetBindsOnlyInBody ==
    \A k \in 1..Len(expr_types) :
        (expr_types[k].kind = "let" /\ expr_types[k].declared # ErrorName) =>
            LetScoped(expr_types[k]) /\ InitChecked(expr_types[k])

(***************************************************************************)
(* C28: once the hierarchy has been validated without a diagnostic, every  *)
(* ancestor walk (the loops of Type::conformsTo, findFieldType,            *)
(* findMethodSignature and findCommonAncestor), from any class and for any *)
(* name or type looked for, ends after looking up at most as many classes  *)
(* other than Object as the class table holds.                             *)
(***************************************************************************)
WalkLimit == Cardinality(DOMAIN class_definitions) + 1

TableSize == Cardinality(DOMAIN class_table)

MemberNames ==
    {"absent"} \cup UNION {(DOMAIN class_definitions[c].fields)
                           \cup (DOMAIN class_definitions[c].methods) :
                               c \in DOMAIN class_definitions}

WalksBoundedFrom(c) ==
    /\ \A o \in DOMAIN class_definitions :
          conformsWalkVisits(c, MkType(o, "CLASS"), class_definitions, 0, WalkLimit)
              <= TableSize
    /\ \A n \in MemberNames :
          /\ findFieldTypeVisits(c, n, class_definitions, 0, WalkLimit) <= TableSize
          /\ findMethodSignatureVisits(c, n, class_definitions, 0, WalkLimit) <= TableSize
    /\ collectAncestorsVisits(c, class_definitions, 0, WalkLimit) <= TableSize
    /\ \A o \in DOMAIN class_definitions :
          firstCommonVisits(o, ParentChain(c, {}, class_definitions) \cup {"Object"},
                            class_definitions, 0, WalkLimit) <= TableSize

C28_AncestorWalksBounded ==
    Validated => \A c \in DOMAIN class_definitions : WalksBoundedFrom(c)

\* a chain of three classes below Object, walked to its end
C28_Witness ==
    /\ Validated
    /\ TableSize = 3
    /\ findMethodSignatureVisits("Main", "absent", class_definitions, 0, WalkLimit) = 3
    /\ collectAncestorsVisits("Main", class_definitions, 0, WalkLimit) = 3

(***************************************************************************)
(* C29: in a program that passed the type check, a call of one of the      *)
(* seven methods registered on Object, on a receiver whose static class is *)
(* Object or Main, is lowered to a call of a function the emitter declared *)
(* for the runtime.                                                        *)
(***************************************************************************)
BuiltinNames == {b.name : b \in BuiltinCalls}

BuiltinCallsOf(cs) == {i \in 1..Len(cs) : cs[i].call[3] \in BuiltinNames}

C29_BuiltinsResolved ==
    (BodiesLowered /\ program \in BuiltinPrograms) =>
        /\ BuiltinCallsOf(calls) # {}
        /\ \A i \in BuiltinCallsOf(calls) : calls[i].callee \in RuntimeMethods

(***************************************************************************)
(* C30: the code emitted for base ^ exp returns for every base and exp of  *)
(* the width, and what it returns is base multiplied by itself exp times   *)
(* modulo 2^IntWidth when exp >= 0 (1 when exp = 0) and 1 when exp < 0.    *)
(***************************************************************************)
RECURSIVE Power(_, _)
Power(base, exp) == IF exp <= 0 THEN 1 ELSE Wrap(base * Power(base, exp - 1))

PowReturned == pow.block = "returned"

C30_PowReturnsPower ==
    /\ <>PowReturned
    /\ [](PowReturned => pow.value = Power(pow.base, pow.exp))

====
